---- MODULE Spec2Model ----
(***************************************************************************)
(* A model of terranova, a command-line orchestrator that drives the       *)
(* terraform binary over many resources directories.                       *)
(*                                                                         *)
(* The model follows src/terranova/commands/binds.py (the commands),       *)
(* src/terranova/commands/helpers.py (manifest reading, import resolution, *)
(* context mounting) and src/terranova/binds.py (EnvBind, Bind, Terraform).*)
(*                                                                         *)
(* A run of the program is one command invocation.  Init draws the command *)
(* line, the file system (the manifests under the resources root and the   *)
(* order in which os.walk lists them), and the process environment.        *)
(* The exit code the wrapped tool has in each directory, and whether the   *)
(* binary is on PATH, are drawn by Init too; the text `terraform output`   *)
(* prints and the plan payloads are drawn where the code spawns the        *)
(* subprocess.                                                             *)
(*                                                                         *)
(* A second specification, FnSpec, applies functions of the program to     *)
(* arguments drawn by its initial state.                                   *)
(***************************************************************************)
EXTENDS Integers, Sequences, FiniteSets, TLC

\* ------------------------------------------------------------------ bounds

\* Number of resources directories under the resources root (labels 1..MaxDirs).
MaxDirs == 3
\* Largest exit code the wrapped tool is drawn to return (0..MaxExitCode).
MaxExitCode == 3
\* Longest plan payload, in bytes, that the wrapped tool is drawn to write.
MaxPayloadLen == 3

Dirs == 1..MaxDirs
ExitCodes == 0..MaxExitCode

\* ------------------------------------------------------------------ helpers

Range(s) == {s[k] : k \in DOMAIN s}

\* All orders of a finite set.
Perms(S) == {p \in [1..Cardinality(S) -> S] : Range(p) = S}

\* The tree under the resources root: directory 2 lies in directory 1, the
\* others lie in the root itself (0); the labels, in index order, are sorted.
Parent(d) == IF d = 2 THEN 1 ELSE 0

\* The directories at or under directory p, the root being 0.
Under(p) == IF p = 0 THEN Dirs ELSE {d \in Dirs : d = p \/ Parent(d) = p}

\* str.startswith on strings modelled as sequences of one-character strings.
StartsWith(s, p) == Len(s) >= Len(p) /\ SubSeq(s, 1, Len(p)) = p

\* Python exceptions in flight: exc = "none" is a normal return.
NoExc == [exc |-> "none", code |-> 0]
Raise(e, c) == [exc |-> e, code |-> c, cause |-> "none"]

\* utils.py, Log.fatal(msgs, err): the error is logged and Exit(1) is raised.
Log_fatal(err) == [exc |-> "Exit", code |-> 1, cause |-> err]

\* ------------------------------------------------------------------ strings

\* Environment variable names, as sequences of characters.
N_HOME == <<"H","O","M","E">>
N_PATH == <<"P","A","T","H">>
N_GCP_PROJECT == <<"G","C","P","_","P","R","O","J","E","C","T">>
N_GCLOUD_PROJECT == <<"G","C","L","O","U","D","_","P","R","O","J","E","C","T">>
N_CLOUDSDK_PROJECT == <<"C","L","O","U","D","S","D","K","_","P","R","O","J","E","C","T">>
N_CLOUDSDK_CORE_PROJECT ==
    <<"C","L","O","U","D","S","D","K","_","C","O","R","E","_","P","R","O","J","E","C","T">>
N_CLOUDSDK_AUTH_CREDENTIAL_FILE_OVERRIDE ==
    <<"C","L","O","U","D","S","D","K","_","A","U","T","H","_","C","R","E","D","E","N","T","I","A","L",
      "_","F","I","L","E","_","O","V","E","R","R","I","D","E">>
N_GOOGLE_APPLICATION_CREDENTIALS ==
    <<"G","O","O","G","L","E","_","A","P","P","L","I","C","A","T","I","O","N","_",
      "C","R","E","D","E","N","T","I","A","L","S">>
N_GOOGLE_CLOUD_PROJECT ==
    <<"G","O","O","G","L","E","_","C","L","O","U","D","_","P","R","O","J","E","C","T">>
N_GOOGLE_GHA_CREDS_PATH ==
    <<"G","O","O","G","L","E","_","G","H","A","_","C","R","E","D","S","_","P","A","T","H">>
P_TF_ == <<"T","F","_">>
P_TERRANOVA_ == <<"T","E","R","R","A","N","O","V","A","_">>
P_AWS_ == <<"A","W","S","_">>
P_ASDF_ == <<"A","S","D","F","_">>
P_TF_VAR_ == <<"T","F","_","V","A","R","_">>
N_TF_PLUGIN_CACHE_DIR == <<"T","F","_","P","L","U","G","I","N","_","C","A","C","H","E","_","D","I","R">>
N_TF_LOG == <<"T","F","_","L","O","G">>

\* Names of outputs and of the variables they are imported as.
K_x == <<"x">>
K_y == <<"y">>

\* Names the orchestrator's own environment is drawn over: an exact allow-listed
\* name, a credential family, a name the injection of K_x collides with, a name
\* that shares letters with a prefix without matching it, and a secret.
N_AWS_KEY == P_AWS_ \o <<"K">>
N_TF_VAR_x == P_TF_VAR_ \o K_x
N_TFX == <<"T","F","X">>
N_SECRET == <<"S","E","C","R","E","T">>

\* ------------------------------------------------------------------ src/terranova/binds.py

\* EnvBind.inherit(predicate): the process variables the predicate accepts;
\* the predicate is given as the set of names it accepts.
EnvBind_inherit(environ, accepted) ==
    [k \in {n \in DOMAIN environ : n \in accepted} |-> environ[k]]

\* EnvBind.add: dict.update, the added variables win.
EnvBind_add(build, env_vars) == env_vars @@ build

\* Terraform.create_bind.inherit_env_vars
inherit_env_vars ==
    { N_CLOUDSDK_AUTH_CREDENTIAL_FILE_OVERRIDE, N_CLOUDSDK_CORE_PROJECT,
      N_CLOUDSDK_PROJECT, N_GCLOUD_PROJECT, N_GCP_PROJECT,
      N_GOOGLE_APPLICATION_CREDENTIALS, N_GOOGLE_CLOUD_PROJECT,
      N_GOOGLE_GHA_CREDS_PATH, N_HOME, N_PATH }

\* is_allowed_env_var with the terraform prefix written without its underscore.
is_allowed_env_var_short_prefix(env_var) ==
    \/ env_var \in inherit_env_vars
    \/ StartsWith(env_var, <<"T","F">>)
    \/ StartsWith(env_var, P_TERRANOVA_)
    \/ StartsWith(env_var, P_AWS_)
    \/ StartsWith(env_var, P_ASDF_)

\* Terraform.create_bind.is_allowed_env_var
is_allowed_env_var(env_var) ==
    \/ env_var \in inherit_env_vars
    \/ StartsWith(env_var, P_TF_)
    \/ StartsWith(env_var, P_TERRANOVA_)
    \/ StartsWith(env_var, P_AWS_)
    \/ StartsWith(env_var, P_ASDF_)

\* A Python object is the function from the attributes set on it so far to their
\* values; reading an attribute that has not been set raises AttributeError.
NewObject == <<>>
HasAttr(self, a) == a \in DOMAIN self
SetAttr(self, a, v) == (a :> v) @@ self

\* The value import variables are None or a dict; both are falsy when empty, and
\* None is modelled as the empty mapping.
None_variables == <<>>

\* create_bind leaving the plugin cache directory out.
create_bind_no_cache(self, environ, verbose) ==
    LET env == EnvBind_inherit(environ,
                               {n \in DOMAIN environ : is_allowed_env_var(n)})
    IN  IF ~HasAttr(self, "__variables") \/ ~HasAttr(self, "__work_dir")
        THEN Raise("AttributeError", 1)
        ELSE [exc |-> "none", code |-> 0,
              bind |-> [env |-> env, cwd |-> self["__work_dir"]]]

\* Terraform.create_bind(self, cmd).  The process environment is filtered
\* first; self.__variables and self.__work_dir are then read from the object.
create_bind(self, environ, verbose) ==
    LET env == EnvBind_inherit(environ,
                               {n \in DOMAIN environ : is_allowed_env_var(n)})
    IN  IF ~HasAttr(self, "__variables") THEN Raise("AttributeError", 1)
        ELSE
        LET variables == self["__variables"]
            tf_vars == [n \in {P_TF_VAR_ \o key : key \in DOMAIN variables}
                          |-> variables[SubSeq(n, Len(P_TF_VAR_) + 1, Len(n))]]
            cache == (N_TF_PLUGIN_CACHE_DIR :> "plugin-cache") @@ tf_vars
            additional_env_vars ==
                IF verbose THEN (N_TF_LOG :> "DEBUG") @@ cache ELSE cache
        IN  IF ~HasAttr(self, "__work_dir") THEN Raise("AttributeError", 1)
            ELSE [exc |-> "none", code |-> 0,
                  bind |-> [env |-> EnvBind_add(env, additional_env_vars),
                            cwd |-> self["__work_dir"]]]

\* BindMixin.__init__(self, cmd): self._bind = self.create_bind(cmd)
BindMixin__init__(self, environ, verbose) ==
    LET b == create_bind(self, environ, verbose)
    IN  IF b.exc # "none" THEN b
        ELSE [exc |-> "none", code |-> 0, self |-> SetAttr(self, "_bind", b.bind)]

\* Terraform.__init__ assigning the two private attributes before it calls
\* the super constructor.
Terraform__init___attributes_first(work_dir, variables, environ, verbose, has_terraform) ==
    LET self == SetAttr(SetAttr(NewObject, "__work_dir", work_dir),
                        "__variables", variables)
        sup == IF has_terraform THEN BindMixin__init__(self, environ, verbose)
               ELSE Raise("CommandNotFound", 0)
    IN  IF sup.exc = "CommandNotFound" THEN Log_fatal("CommandNotFound")
        ELSE sup

\* Terraform.__init__(self, work_dir, variables).  Command("terraform") raises
\* CommandNotFound when the binary is not on PATH, which Log.fatal turns into
\* Exit(1); any other exception of the super constructor propagates.  The two
\* private attributes are assigned after the super constructor has returned.
Terraform__init__(work_dir, variables, environ, verbose, has_terraform) ==
    LET self == NewObject
        sup == IF has_terraform THEN BindMixin__init__(self, environ, verbose)
               ELSE Raise("CommandNotFound", 0)
    IN  IF sup.exc = "CommandNotFound" THEN Log_fatal("CommandNotFound")
        ELSE IF sup.exc # "none" THEN sup
        ELSE [exc |-> "none", code |-> 0,
              self |-> SetAttr(SetAttr(sup.self, "__work_dir", work_dir),
                               "__variables", variables)]

\* Bind.exec: the environment the subprocess is spawned with (_env=None, given
\* for an empty environment, makes the child inherit the whole process
\* environment).
Bind_exec_env(bind, environ) ==
    IF DOMAIN bind.env # {} THEN bind.env ELSE environ

\* One wrapped-tool subprocess, as the history records it: its working
\* directory, verb, the output name (terraform output), the plan file it wrote
\* (plan -out) or was given (apply), its environment and its exit code.
Invocation(tf, verb, name, plan, environ, code) ==
    [dir |-> tf["_bind"].cwd, verb |-> verb, name |-> name, plan |-> plan,
     env |-> Bind_exec_env(tf["_bind"], environ), code |-> code]

\* ------------------------------------------------------------------ src/terranova/resources.py

\* A manifest.yml as the loader meets it: kind is what from_file finds, imports
\* the declared imports (source directory, output name, optional alias; an
\* alias of <<>> is no alias).
ManifestFile(kind, imports) ==
    [kind |-> kind, imports |-> imports, runbooks |-> <<>>]
Import(source, resource, target) ==
    [source |-> source, resource |-> resource, target |-> target]

\* ResourcesManifest.from_file.  The file is missing (or is not a regular
\* file), is unreadable, is not YAML, is YAML whose document is not a mapping
\* (an empty file loads as None, which has no method get), names a version
\* that has no schema, does not validate against the schema, or is sound.
from_file(file) ==
    IF file.kind = "missing" THEN Raise("MissingManifestError", 0)
    ELSE IF file.kind = "unreadable" THEN Raise("UnreadableManifestError", 0)
    ELSE IF file.kind = "yaml" THEN Raise("InvalidManifestError", 0)
    ELSE IF file.kind = "not_mapping" THEN Raise("AttributeError", 0)
    ELSE IF file.kind = "version" THEN Raise("VersionManifestError", 0)
    ELSE IF file.kind = "schema" THEN Raise("InvalidManifestError", 0)
    ELSE [exc |-> "none", code |-> 0,
          manifest |-> [imports |-> file.imports, runbooks |-> file.runbooks]]

\* ResourcesRunbookEnv(name, value): declared says whether the entry has a
\* value, which may be the empty string.
ResourcesRunbookEnv(name, declared, value) ==
    [name |-> name, declared |-> declared, value |-> value]

\* ResourcesRunbook(name, entrypoint, workdir, args, env), of which the name and
\* the env entries are kept.
ResourcesRunbook(name, env) == [name |-> name, env |-> env]

\* The variables ResourcesRunbook.exec sets itself.
N_TERRANOVA_PATH == P_TERRANOVA_ \o <<"P","A","T","H">>
N_TERRANOVA_CONF_DIR == P_TERRANOVA_ \o <<"C","O","N","F","_","D","I","R">>
N_TERRANOVA_RUNBOOK_NAME ==
    P_TERRANOVA_ \o <<"R","U","N","B","O","O","K","_","N","A","M","E">>

\* os.getenv(name): None, given as "", for a variable that is not set.
getenv(environ, name) == IF name \in DOMAIN environ THEN environ[name] ELSE ""

\* ResourcesRunbook.exec, the loop over self.env from entry j on: a truthy
\* value is taken as it is; otherwise the process variable of that name is
\* taken, and a value that is not truthy raises MissingRunbookEnvError.
RECURSIVE exec_env_entries(_, _, _, _)
exec_env_entries(entries, j, env, environ) ==
    IF j > Len(entries) THEN [exc |-> "none", code |-> 0, env |-> env]
    ELSE IF entries[j].declared /\ entries[j].value # ""
    THEN exec_env_entries(entries, j + 1,
                          (entries[j].name :> entries[j].value) @@ env, environ)
    ELSE LET maybe_env_var == getenv(environ, entries[j].name)
         IN  IF maybe_env_var = ""
             THEN [exc |-> "MissingRunbookEnvError", code |-> 0,
                   cause |-> "none", name |-> entries[j].name]
             ELSE exec_env_entries(entries, j + 1,
                                   (entries[j].name :> maybe_env_var) @@ env,
                                   environ)

\* ResourcesRunbook.exec up to the spawn: the environment of the subprocess.
exec_env(self, path, environ) ==
    LET env == (N_TERRANOVA_PATH :> path) @@ (N_TERRANOVA_CONF_DIR :> "conf")
                   @@ (N_TERRANOVA_RUNBOOK_NAME :> self.name)
        cmd_path == getenv(environ, N_PATH)
        with_path == IF cmd_path # "" THEN (N_PATH :> cmd_path) @@ env ELSE env
    IN  exec_env_entries(self.env, 1, with_path, environ)

\* ResourcesRunbook.exec(path, workdir, import_vars), as the runbook command
\* calls it: the import variables are added to the environment.
exec_import_vars(env, import_vars) == import_vars @@ env

\* exceptions.py: the subclasses of ManifestError
ManifestError ==
    { "MissingManifestError", "UnreadableManifestError", "InvalidManifestError",
      "VersionManifestError" }

\* ---- ResourcesFinder

\* A configuration file is a sequence of tokens: "/*", "*/" with the newline
\* that ends its line, a run of any other characters (given as the sequence of
\* its characters, newlines included), and a declaration
\* `resource "<type>" "<name>"` with the rest of its line.
Tok_open == [t |-> "open"]
Tok_close == [t |-> "close"]
Tok_text(chars) == [t |-> "text", chars |-> chars]
Tok_decl(type, name) == [t |-> "decl", type |-> type, name |-> name]

\* The characters of a token, as path.read_text returns them.
Render(tok) ==
    IF tok.t = "open" THEN << "/", "*" >>
    ELSE IF tok.t = "close" THEN << "*", "/", "\n" >>
    ELSE IF tok.t = "text" THEN tok.chars
    ELSE << "r", "e", "s", "o", "u", "r", "c", "e", " ", tok.type, " ",
            tok.name, " ", "{", "}", "\n" >>

RECURSIVE read_text(_)
read_text(content) ==
    IF content = <<>> THEN <<>>
    ELSE Render(Head(content)) \o read_text(Tail(content))

\* __RESOURCE_PATTERN tried at token p.  The optional group starts at a "/*";
\* its lazy body ends at the first "*/\n" that a declaration follows at once,
\* whatever lies between.  When the group cannot match, the pattern matches a
\* declaration alone, with empty groups.
RESOURCE_PATTERN_at(content, p) ==
    LET ends == {q \in (p + 1)..(Len(content) - 1) :
                    content[q].t = "close" /\ content[q + 1].t = "decl"}
        q == CHOOSE e \in ends : \A o \in ends : e <= o
    IN  IF content[p].t = "open" /\ ends # {}
        THEN [matched |-> TRUE,
              comments |-> read_text(SubSeq(content, p + 1, q - 1)),
              resource_type |-> content[q + 1].type,
              resource_name |-> content[q + 1].name, next |-> q + 2]
        ELSE IF content[p].t = "decl"
        THEN [matched |-> TRUE, comments |-> <<>>,
              resource_type |-> content[p].type,
              resource_name |-> content[p].name, next |-> p + 1]
        ELSE [matched |-> FALSE, next |-> p + 1]

\* __RESOURCE_PATTERN.findall(content): the matches from left to right, none
\* overlapping another.
RECURSIVE findall(_, _)
findall(content, p) ==
    IF p > Len(content) THEN <<>>
    ELSE LET m == RESOURCE_PATTERN_at(content, p)
         IN  (IF m.matched THEN << m >> ELSE <<>>) \o findall(content, m.next)

\* The white space met in the texts drawn: space and newline.
WhiteSpace == {" ", "\n"}

\* str.strip
RECURSIVE lstrip(_)
lstrip(str) ==
    IF str # <<>> /\ Head(str) \in WhiteSpace THEN lstrip(Tail(str)) ELSE str
RECURSIVE rstrip(_)
rstrip(str) ==
    IF str # <<>> /\ str[Len(str)] \in WhiteSpace
    THEN rstrip(SubSeq(str, 1, Len(str) - 1)) ELSE str
strip(str) == rstrip(lstrip(str))

\* str.splitlines
RECURSIVE splitlines(_)
splitlines(str) ==
    IF str = <<>> THEN <<>>
    ELSE LET nls == {n \in DOMAIN str : str[n] = "\n"}
             n == CHOOSE e \in nls : \A o \in nls : e <= o
         IN  IF nls = {} THEN << str >>
             ELSE << SubSeq(str, 1, n - 1) >>
                  \o splitlines(SubSeq(str, n + 1, Len(str)))

\* __RESOURCE_ATTR_PATTERN.match(line), the pattern @(\S+)\s+(.+) anchored at
\* the start of the line: "@", the longest run of non-blank characters, the
\* run of blanks after it, and the rest of the line; when nothing follows the
\* blanks, the last of two or more blanks is the value.
RESOURCE_ATTR_PATTERN_match(line) ==
    LET blanks == {j \in 2..Len(line) : line[j] \in WhiteSpace}
        name_end == IF blanks = {} THEN Len(line)
                    ELSE (CHOOSE e \in blanks : \A o \in blanks : e <= o) - 1
        others == {j \in (name_end + 1)..Len(line) : line[j] \notin WhiteSpace}
        blanks_end == IF others = {} THEN Len(line)
                      ELSE (CHOOSE e \in others : \A o \in others : e <= o) - 1
        no_match == [matched |-> FALSE]
    IN  IF Len(line) < 2 \/ line[1] # "@" THEN no_match
        ELSE IF name_end < 2 \/ name_end = Len(line) THEN no_match
        ELSE IF blanks_end < Len(line)
        THEN [matched |-> TRUE, name |-> SubSeq(line, 2, name_end),
              value |-> SubSeq(line, blanks_end + 1, Len(line))]
        ELSE IF blanks_end - name_end >= 2
        THEN [matched |-> TRUE, name |-> SubSeq(line, 2, name_end),
              value |-> << line[Len(line)] >>]
        ELSE no_match

\* find_in_file, "Parse attributes": attrs is a defaultdict(list), given as the
\* function from the names that have an entry to their lists.
RECURSIVE parse_attrs(_, _, _)
parse_attrs(lines, j, attrs) ==
    IF j > Len(lines) THEN attrs
    ELSE LET attr_match == RESOURCE_ATTR_PATTERN_match(lines[j])
             old == IF attr_match.name \in DOMAIN attrs
                    THEN attrs[attr_match.name] ELSE <<>>
         IN  IF attr_match.matched
             THEN parse_attrs(lines, j + 1,
                      (attr_match.name :> Append(old, attr_match.value)) @@ attrs)
             ELSE parse_attrs(lines, j + 1, attrs)

\* Selector(name, value); the value None is distinct from every string.
None_value == << "None" >>
Selector(name, value) == [name |-> name, value |-> value]

\* Selector.match requiring the attribute only.
Selector_match_any_value(self, resource) ==
    self.name \in DOMAIN resource.attrs

\* Selector.match.  attrs.get gives None for a name without entry, and None
\* is falsy like the empty list it is given as; None and "" are the falsy
\* values of self.value.
Selector_match(self, resource) ==
    LET attr_value == IF self.name \in DOMAIN resource.attrs
                      THEN resource.attrs[self.name] ELSE <<>>
    IN  IF /\ self.value # None_value /\ self.value # <<>>
           /\ attr_value # <<>>
           /\ self.value \notin Range(attr_value)
        THEN FALSE
        ELSE IF attr_value = <<>> THEN FALSE
        ELSE TRUE

\* find_in_file, "Filter resource by selector": the loop is left at the first
\* selector that does not match.
RECURSIVE filter_match(_, _, _)
filter_match(selectors, j, resource) ==
    IF j > Len(selectors) THEN TRUE
    ELSE IF ~Selector_match(selectors[j], resource) THEN FALSE
    ELSE filter_match(selectors, j + 1, resource)

\* find_in_file, the loop over detected_resources from match j on.
RECURSIVE find_in_detected(_, _, _, _)
find_in_detected(detected, j, selectors, resources) ==
    IF j > Len(detected)
    THEN [exc |-> "none", code |-> 0, resources |-> resources]
    ELSE LET maybe_resource_attrs == strip(detected[j].comments)
             resource ==
                 [name |-> detected[j].resource_name,
                  type |-> detected[j].resource_type,
                  attrs |-> parse_attrs(splitlines(maybe_resource_attrs), 1, <<>>)]
         IN  IF maybe_resource_attrs = <<>>
             THEN [exc |-> "InvalidResourcesError", code |-> 0,
                   resource_type |-> detected[j].resource_type,
                   resource_name |-> detected[j].resource_name]
             ELSE find_in_detected(detected, j + 1, selectors,
                      IF filter_match(selectors, 1, resource)
                      THEN Append(resources, resource) ELSE resources)

\* ResourcesFinder.find_in_file(path, selectors), given the content of the file.
find_in_file(content, selectors) ==
    find_in_detected(findall(content, 1), 1, selectors, <<>>)

\* ------------------------------------------------------------------ src/terranova/commands/helpers.py

\* The part of the world a helper reads: w.fs maps the directories whose
\* manifest may be read to their manifest file, w.environ is os.environ,
\* w.verbose the --verbose flag, w.has_terraform whether the binary is on PATH.
World(fs, environ, verbose, has_terraform) ==
    [fs |-> fs, environ |-> environ, verbose |-> verbose,
     has_terraform |-> has_terraform]

\* read_manifest: a ManifestError is logged and becomes Exit(1) (Log.fatal).
read_manifest(path, w) ==
    LET r == from_file(w.fs[path])
    IN  IF r.exc \in ManifestError THEN Log_fatal(r.exc) ELSE r

\* No manifest passed to mount_context.
NoManifest == [absent |-> TRUE]

\* mount_context(full_path, manifest, import_vars), given as `variables` the
\* value its line `variables = extract_import_vars(manifest) if import_vars
\* else None` has computed: the manifest is read unless one is passed, and the
\* Terraform object is constructed.
mount_context(full_path, manifest, variables, w) ==
    LET rm == IF "absent" \in DOMAIN manifest THEN read_manifest(full_path, w)
              ELSE [exc |-> "none", code |-> 0, manifest |-> manifest]
    IN  IF rm.exc # "none" THEN rm
        ELSE Terraform__init__(full_path, variables, w.environ, w.verbose,
                               w.has_terraform)

\* extract_output_var(path, name): `out` is the outcome of the subprocess
\* `terraform output -raw name` (exit code and captured stdout).  The result
\* carries the subprocesses spawned (calls).
extract_output_var(path, name, out, w) ==
    LET mc == mount_context(path, NoManifest, None_variables, w)
    IN  IF mc.exc # "none"
        THEN [exc |-> mc.exc, code |-> mc.code, cause |-> mc.cause,
              calls |-> <<>>]
        ELSE
        LET call == Invocation(mc.self, "output", name, <<>>, w.environ, out.code)
        IN  IF out.code # 0
            THEN [exc |-> "Exit", code |-> out.code, cause |-> "none",
                  calls |-> <<call>>]
            ELSE [exc |-> "none", code |-> 0, calls |-> <<call>>,
                  val |-> out.value]

\* The commands that mount their context with import_vars=True.
ImportVarsCommands == {"plan", "apply", "destroy", "taint", "untaint", "define"}

\* ------------------------------------------------------------------ base64 and json

\* A text of the base64 alphabet is the sequence of the indices of its
\* characters in the alphabet (0..63); Pad is the index given to "=".
Pad == 64

\* base64.b64encode(...).decode("utf-8"): three bytes become four sextets; a last
\* group of one or two bytes is padded with "=".
RECURSIVE b64encode(_)
b64encode(bytes) ==
    IF Len(bytes) = 0 THEN <<>>
    ELSE IF Len(bytes) = 1
    THEN LET n == bytes[1] * 65536
         IN  << n \div 262144, (n \div 4096) % 64, Pad, Pad >>
    ELSE IF Len(bytes) = 2
    THEN LET n == bytes[1] * 65536 + bytes[2] * 256
         IN  << n \div 262144, (n \div 4096) % 64, (n \div 64) % 64, Pad >>
    ELSE LET n == bytes[1] * 65536 + bytes[2] * 256 + bytes[3]
         IN  << n \div 262144, (n \div 4096) % 64, (n \div 64) % 64, n % 64 >>
             \o b64encode(SubSeq(bytes, 4, Len(bytes)))

\* base64.b64decode: four characters become three bytes, fewer by one for each
\* "=" that ends the group.
RECURSIVE b64decode(_)
b64decode(text) ==
    IF Len(text) < 4 THEN <<>>
    ELSE LET s3 == IF text[3] = Pad THEN 0 ELSE text[3]
             s4 == IF text[4] = Pad THEN 0 ELSE text[4]
             n == text[1] * 262144 + text[2] * 4096 + s3 * 64 + s4
             group == << n \div 65536, (n \div 256) % 256, n % 256 >>
             keep == IF text[3] = Pad THEN 1 ELSE IF text[4] = Pad THEN 2 ELSE 3
         IN  SubSeq(group, 1, keep) \o b64decode(SubSeq(text, 5, Len(text)))

\* A Python dict with insertion order: a sequence of <<key, value>> with
\* distinct keys.  d[key] = value replaces the value in place or appends.
DictKeys(d) == [k \in DOMAIN d |-> d[k][1]]
DictHas(d, key) == \E k \in DOMAIN d : d[k][1] = key
DictGet(d, key) == d[CHOOSE k \in DOMAIN d : d[k][1] = key][2]
DictSet(d, key, value) ==
    IF DictHas(d, key)
    THEN [k \in DOMAIN d |-> IF d[k][1] = key THEN <<key, value>> ELSE d[k]]
    ELSE Append(d, <<key, value>>)

\* json.dumps of a dict of strings: the members of the JSON object, in the
\* dict's order.  json.loads builds the dict member by member, so that a
\* repeated key keeps its first position and its last value.
json_dumps(d) == [k \in DOMAIN d |-> [name |-> d[k][1], value |-> d[k][2]]]
RECURSIVE json_loads_from(_, _, _)
json_loads_from(members, k, d) ==
    IF k > Len(members) THEN d
    ELSE json_loads_from(members, k + 1,
                         DictSet(d, members[k].name, members[k].value))
json_loads(members) == json_loads_from(members, 1, <<>>)

\* ------------------------------------------------------------------ inputs

\* Manifest files a directory may hold.
Imports ==
    { <<>>,
      << Import(1, K_x, <<>>) >>,
      << Import(1, K_x, K_y), Import(2, K_y, <<>>) >> }
ManifestFiles ==
    {ManifestFile(k, <<>>) :
        k \in {"missing", "unreadable", "yaml", "not_mapping", "version", "schema"}}
        \cup {ManifestFile("ok", imp) : imp \in Imports}

\* Runbooks a manifest may declare: without env, with a literal entry and a
\* forwarded one, with an entry whose literal is the empty string, and one
\* of another name.
Rb_plain == ResourcesRunbook("rb", <<>>)
Rb_env ==
    ResourcesRunbook("rb", << ResourcesRunbookEnv(N_AWS_KEY, TRUE, "lit"),
                              ResourcesRunbookEnv(N_TFX, FALSE, "") >>)
Rb_empty == ResourcesRunbook("rb", << ResourcesRunbookEnv(N_SECRET, TRUE, "") >>)
Rb_other == ResourcesRunbook("other", <<>>)
RunbookLists ==
    { << Rb_plain >>, << Rb_env >>, << Rb_empty >>, << Rb_other >>,
      << Rb_other, Rb_env >>, << Rb_plain, Rb_env >> }

\* Well-formed manifest files that declare runbooks.
RunbookManifestFiles ==
    [kind : {"ok"}, imports : { <<>>, << Import(1, K_x, <<>>) >> },
     runbooks : RunbookLists]

\* What the run has seen of a directory's manifest so far: nothing, that the
\* file is listed by the walk, or the file itself.
Unseen == ManifestFile("unseen", <<>>)
Listed == ManifestFile("listed", <<>>)

\* The orchestrator's own process environment.
Environs ==
    { (N_HOME :> "home") @@ (N_SECRET :> "secret"),
      (N_TF_VAR_x :> "forwarded") @@ (N_AWS_KEY :> "key") @@ (N_TFX :> "tfx")
          @@ (N_SECRET :> "secret"),
      (N_PATH :> "/bin") @@ (N_TFX :> "") }

\* What the wrapped tool does when it runs in each directory: its exit code.
\* At most one directory of a run fails.
Tools ==
    { [d \in Dirs |-> IF d = a THEN c ELSE 0] : a \in Dirs, c \in ExitCodes }

\* What `terraform output -raw` may do in a directory where the tool exits
\* with code c: exit code and captured stdout.
ToolOutputs(c) == [code : {c}, value : {"v1", "v2"}]

\* Plan payloads the wrapped tool may write, by length 0..MaxPayloadLen.
Payloads ==
    {p \in { <<>>, <<77>>, <<0, 255>>, <<1, 2, 3>>, <<250, 251, 252, 253>> } :
        Len(p) <= MaxPayloadLen}

\* Plan artifact files apply may be pointed at: the members of a JSON object
\* whose names are directories and whose values are base64 texts.
PlanFiles ==
    { <<>> } \cup
    { << [name |-> a, value |-> b64encode(<<77>>)] >> : a \in Dirs } \cup
    { << [name |-> ab[1], value |-> b64encode(<<0, 255>>)],
         [name |-> ab[2], value |-> b64encode(<<1, 2, 3>>)] >> :
           ab \in {x \in Dirs \X Dirs : x[1] # x[2]} }
NoPlanFile == <<>>

BatchCommands == {"init", "fmt", "validate", "plan", "apply", "destroy"}
SingleCommands == {"graph", "taint", "untaint", "define", "output", "runbook"}
FailAtEndCommands == {"init", "validate", "plan", "apply"}

\* Texts of block comments, between "/*" and "*/": none, blank, without an
\* attribute line, one attribute, attributes repeated and mixed with a line of
\* another shape, attribute lines that are indented, and an attribute line
\* without value next to one whose value is followed by blanks.
C_empty == <<>>
C_blank == << " ", "\n", " " >>
C_text == << " ", "n", "o", " " >>
C_one == << " ", "@", "e", " ", "p", " " >>
C_two == << "\n", "@", "e", " ", "p", "\n", "n", "o", "\n", "@", "e", " ", "d", "\n", "@", "t", " ", "a", "\n" >>
C_indented == << "\n", " ", "@", "e", " ", "p", "\n", " ", "@", "e", " ", "d", "\n" >>
C_no_value == << "\n", "@", "e", "\n", "@", "t", " ", "a", " ", " ", "\n", "@", "t", " ", "b", "\n" >>
Comments == {C_empty, C_blank, C_text, C_one, C_two, C_indented, C_no_value}

\* What a file holds before a declaration and its comment: nothing, a line of
\* other code, or a block comment of its own followed by other code.
Pre_code == << Tok_text(<< "c", "o", "d", "e", "\n" >>) >>
Pre_comment == << Tok_open, Tok_text(<< "\n", "@", "t", " ", "z", "\n" >>), Tok_close, Tok_text(<< "c", "o", "d", "e", "\n" >>) >>
Pres == { <<>>, Pre_code, Pre_comment }

\* A declaration in its file: what precedes it, and the comment block right
\* before it, wrapped in a sequence (<<>> for a declaration without comment).
Items == [pre : Pres, doc : {<<>>} \cup {<< c >> : c \in Comments}]

\* Longest file, in declarations.
MaxResources == 2
ResourceNames == << "x", "y", "z", "w" >>

\* The tokens of a declaration named after its position in the file.
ItemTokens(item, n) ==
    item.pre
        \o (IF item.doc = <<>> THEN <<>>
            ELSE << Tok_open, Tok_text(item.doc[1]), Tok_close >>)
        \o << Tok_decl("t", ResourceNames[n]) >>

RECURSIVE FileTokens(_, _)
FileTokens(items, n) ==
    IF n > Len(items) THEN <<>>
    ELSE ItemTokens(items[n], n) \o FileTokens(items, n + 1)

\* The files drawn, as the sequences of their declarations.
TfFiles == UNION { [1..n -> Items] : n \in 0..MaxResources }

\* Selectors given on the command line: --selector e, e=d, e=p with t=a,
\* t= (an empty value), and a name no resource has.
E_name == << "e" >>
T_name == << "t" >>
SelectorLists ==
    { <<>>,
      << Selector(E_name, None_value) >>,
      << Selector(E_name, << "d" >>) >>,
      << Selector(E_name, << "p" >>), Selector(T_name, << "a" >>) >>,
      << Selector(T_name, <<>>) >>,
      << Selector(E_name, None_value), Selector(<< "q" >>, None_value) >> }

\* Command lines.  path = 0 is no path argument; tnplan says that the argument
\* of apply ends with "tnplan", and plan_file is then the content of that file;
\* name is the runbook name given to the runbook command.
Argvs ==
    { a \in [cmd : BatchCommands \cup SingleCommands, path : 0..MaxDirs,
             fail_at_end : BOOLEAN, out : BOOLEAN, verbose : BOOLEAN,
             tnplan : BOOLEAN, plan_file : PlanFiles, name : {"rb"}] :
        /\ a.cmd \in SingleCommands => a.path # 0
        /\ a.fail_at_end => a.cmd \in FailAtEndCommands
        /\ a.out => a.cmd = "plan"
        /\ a.tnplan => a.cmd = "apply" /\ a.path = 0
        /\ ~a.tnplan => a.plan_file = NoPlanFile }

\* No function is applied on its own during a run of a command.
NoCall == [fn |-> "none"]

\* ------------------------------------------------------------------ state

VARIABLES
    argv,              \* the command line
    environ,           \* os.environ of the orchestrator
    has_terraform,     \* whether a terraform binary is on PATH
    tool,              \* the exit code the wrapped tool has for each directory
    files,             \* what the run has seen of each directory's manifest
    paths,             \* the target list (rel_path of each target)
    i,                 \* position of the loop in paths
    manifest,          \* the manifest of paths[i], once read
    k,                 \* position of extract_import_vars in manifest.imports
    variables,         \* the dict extract_import_vars is building
    errors,            \* the command's `errors` flag
    error_exit_codes,  \* plan's list of exit codes
    execution_plan,    \* plan's and apply's dict rel_path -> base64 text
    artifact,          \* the file at --out: written, and its JSON members
    invoked,           \* history: the wrapped-tool subprocesses, in order
    pc,                \* "start", "loop", "mount", "imports", "end", "done"
    exit_code,         \* exit status of the orchestrator, -1 while it runs
    uncaught,          \* the exception that ended the run, or "none"
    logged,            \* history: the errors given to Log.fatal, in order
    launched,          \* history: the runbook subprocesses, in order
    call,              \* a function of the program and the arguments it is given
    result,            \* <<>>, or <<v>> once the function has returned v
    processes,         \* the subprocesses Bind.exec has spawned, in order
    process,           \* Bind.exec's local `process`: an index, 0 for None
    exec_pc,           \* position of Bind.exec and of its caller
    exec_exc           \* the exception in flight in Bind.exec, or "none"

vars == << argv, environ, has_terraform, tool, files, paths, i, manifest, k, variables, errors,
           error_exit_codes, execution_plan, artifact, invoked, pc, exit_code,
           uncaught, logged, launched, call, result, processes, process,
           exec_pc, exec_exc >>

ExecVars == << processes, process, exec_pc, exec_exc >>

\* Bind.exec is not called on its own.
NoExec ==
    processes = <<>> /\ process = 0 /\ exec_pc = "ended" /\ exec_exc = "none"

Init ==
    /\ argv \in Argvs
    /\ environ \in Environs
    /\ has_terraform \in BOOLEAN
    /\ tool \in Tools
    /\ files = [d \in Dirs |-> Unseen]
    /\ paths = <<>>
    /\ i = 1
    /\ manifest = [imports |-> <<>>, runbooks |-> <<>>]
    /\ k = 1
    /\ variables = <<>>
    /\ errors = FALSE
    /\ error_exit_codes = <<>>
    /\ execution_plan = <<>>
    /\ artifact = [written |-> FALSE, members |-> <<>>]
    /\ invoked = <<>>
    /\ pc = "start"
    /\ exit_code = -1
    /\ uncaught = "none"
    /\ logged = <<>>
    /\ launched = <<>>
    /\ call = NoCall
    /\ result = <<>>
    /\ NoExec

\* The manifest files directory d may turn out to hold, given what was seen.
FileChoices(d) ==
    IF files[d] = Unseen
    THEN ManifestFiles
         \cup (IF argv.cmd = "runbook" THEN RunbookManifestFiles ELSE {})
    ELSE IF files[d] = Listed THEN {f \in ManifestFiles : f.kind # "missing"}
    ELSE {files[d]}

\* An exception leaves the command: click turns Exit(code) into the exit
\* status; any other exception is uncaught and the interpreter exits with 1.
Leave(r) ==
    /\ pc' = "done"
    /\ exit_code' = IF r.exc = "Exit" THEN r.code ELSE 1
    /\ uncaught' = IF r.exc = "Exit" THEN "none" ELSE r.exc
    /\ logged' = IF r.cause # "none" THEN Append(logged, r.cause) ELSE logged

\* The command function returns.
Return ==
    pc' = "done" /\ exit_code' = 0 /\ uncaught' = uncaught /\ logged' = logged

\* The loop goes on with the next target, or is left by `break`.
Continue == pc' = "loop" /\ i' = i + 1
Break == pc' = "end" /\ i' = i

\* The context of paths[i] has its manifest and its import variables.
Mounted ==
    /\ pc = "mount"
    /\ argv.cmd \in ImportVarsCommands => k > Len(manifest.imports)

\* ------------------------------------------------------------------ src/terranova/commands/helpers.py (steps)

\* os.walk(top), top-down: the orders in which the directories of `listed` may
\* come. A directory comes before the ones in it, which follow it before any
\* directory beside it; the entries of one directory come in any order.
walk(listed) ==
    {p \in Perms(listed) :
        \A a, b \in DOMAIN p :
            Parent(p[b]) = p[a]
                => /\ a < b
                   /\ \A c \in a + 1 .. b - 1 : Parent(p[c]) = p[a]}

\* resource_dirs(path) / find_all_resource_dirs(resources_dir): the directories
\* at or under the given path (the resources root when no path is given) whose
\* file list holds manifest.yml, in the order of os.walk.
resource_dirs ==
    /\ pc = "start"
    /\ argv.cmd \in BatchCommands
    /\ ~(argv.cmd = "apply" /\ (argv.tnplan \/ argv.path = 0))
    /\ \E listed \in SUBSET Under(argv.path) : \E found \in walk(listed) :
         /\ paths' = found
         /\ files' = [d \in Dirs |->
                        IF d \in listed THEN Listed
                        ELSE IF d \in Under(argv.path)
                             THEN ManifestFile("missing", <<>>) ELSE files[d]]
    /\ pc' = "loop"
    /\ UNCHANGED << ExecVars, call, result, launched, argv, environ, has_terraform, tool, i, manifest, k, variables, errors,
                    error_exit_codes, execution_plan, artifact, invoked,
                    exit_code, uncaught, logged >>

\* The manifest of the target is read: by init itself (read_manifest), by
\* mount_context for the other commands.
load_manifest ==
    /\ pc = "loop" /\ i <= Len(paths)
    /\ argv.cmd # "output"
    /\ \E m \in FileChoices(paths[i]) :
        LET w == World(paths[i] :> m, environ, argv.verbose, has_terraform)
            rm == read_manifest(paths[i], w)
        IN  /\ files' = [files EXCEPT ![paths[i]] = m]
            /\ IF rm.exc # "none"
               THEN Leave(rm) /\ UNCHANGED manifest
               ELSE /\ manifest' = rm.manifest
                    /\ pc' = "mount"
                    /\ UNCHANGED << exit_code, uncaught, logged >>
    /\ k' = 1
    /\ variables' = <<>>
    /\ UNCHANGED << ExecVars, call, result, launched, argv, environ, has_terraform, tool, paths, i, errors, error_exit_codes,
                    execution_plan, artifact, invoked >>

\* One turn of the loop of extract_import_vars: import k is read from its
\* source directory and bound under its alias, or under its own name.
extract_import_vars ==
    /\ \/ pc = "mount" /\ argv.cmd \in ImportVarsCommands
       \/ pc = "imports" /\ argv.cmd = "runbook"
    /\ k <= Len(manifest.imports)
    /\ LET importer == manifest.imports[k]
           target == IF importer.target # <<>> THEN importer.target
                     ELSE importer.resource
       IN  \E m \in FileChoices(importer.source),
              out \in ToolOutputs(tool[importer.source]) :
             LET ht == has_terraform IN
             LET w == World(importer.source :> m, environ, argv.verbose, ht)
                 r == extract_output_var(importer.source, importer.resource, out, w)
             IN  /\ files' = [files EXCEPT ![importer.source] = m]
                 /\ invoked' = invoked \o r.calls
                 /\ IF r.exc # "none"
                    THEN Leave(r) /\ UNCHANGED << k, variables >>
                    ELSE /\ variables' = (target :> r.val) @@ variables
                         /\ k' = k + 1
                         /\ UNCHANGED << pc, exit_code, uncaught, logged >>
    /\ UNCHANGED << ExecVars, call, result, launched, argv, environ, has_terraform, tool, paths, i, manifest, errors, error_exit_codes,
                    execution_plan, artifact >>

\* ------------------------------------------------------------------ src/terranova/commands/binds.py

\* ---- init

init_loop ==
    /\ Mounted /\ argv.cmd = "init"
    /\ LET ht == has_terraform IN
        LET rel_path == paths[i]
            w == World(<<>>, environ, argv.verbose, ht)
            mc == mount_context(rel_path, manifest, None_variables, w)
        IN  IF mc.exc # "none"
            THEN Leave(mc) /\ UNCHANGED << i, errors, invoked >>
            ELSE LET code == tool[paths[i]] IN
                   /\ invoked' = Append(invoked,
                         Invocation(mc.self, "init", <<>>, <<>>, environ, code))
                   /\ IF code # 0
                      THEN /\ errors' = TRUE
                           /\ IF ~argv.fail_at_end THEN Break ELSE Continue
                      ELSE errors' = errors /\ Continue
                   /\ UNCHANGED << exit_code, uncaught, logged >>
    /\ UNCHANGED << ExecVars, call, result, launched, argv, environ, has_terraform, tool, files, paths, manifest, k, variables,
                    error_exit_codes, execution_plan, artifact >>

init_end ==
    /\ argv.cmd = "init"
    /\ pc = "end" \/ (pc = "loop" /\ i > Len(paths))
    /\ pc' = "done"
    /\ exit_code' = IF errors THEN 1 ELSE 0
    /\ UNCHANGED << ExecVars, call, result, launched, argv, environ, has_terraform, tool, files, paths, i, manifest, k, variables,
                    errors, error_exit_codes, execution_plan, artifact, invoked,
                    uncaught, logged >>

\* ---- fmt

fmt_loop ==
    /\ Mounted /\ argv.cmd = "fmt"
    /\ LET ht == has_terraform IN
        LET rel_path == paths[i]
            w == World(<<>>, environ, argv.verbose, ht)
            mc == mount_context(rel_path, manifest, None_variables, w)
        IN  IF mc.exc # "none"
            THEN Leave(mc) /\ UNCHANGED << i, invoked >>
            ELSE LET code == tool[paths[i]] IN
                   /\ invoked' = Append(invoked,
                         Invocation(mc.self, "fmt", <<>>, <<>>, environ, code))
                   /\ IF code # 0
                      THEN Leave(Raise("Exit", code)) /\ i' = i
                      ELSE Continue /\ UNCHANGED << exit_code, uncaught, logged >>
    /\ UNCHANGED << ExecVars, call, result, launched, argv, environ, has_terraform, tool, files, paths, manifest, k, variables, errors,
                    error_exit_codes, execution_plan, artifact >>

\* ---- validate: `resources_ok` is whether discover_resources finds every
\* resource of the directory documented; if not, Log.fatal raises Exit(1).

validate_loop ==
    /\ Mounted /\ argv.cmd = "validate"
    /\ \E resources_ok \in BOOLEAN :
        LET ht == has_terraform IN
        LET rel_path == paths[i]
            w == World(<<>>, environ, argv.verbose, ht)
            mc == mount_context(rel_path, manifest, None_variables, w)
        IN  IF mc.exc # "none"
            THEN Leave(mc) /\ UNCHANGED << i, errors, invoked >>
            ELSE IF ~resources_ok
            THEN /\ Leave(Log_fatal("InvalidResourcesError"))
                 /\ UNCHANGED << i, errors, invoked >>
            ELSE LET code == tool[paths[i]] IN
                   /\ invoked' = Append(invoked,
                         Invocation(mc.self, "validate", <<>>, <<>>, environ, code))
                   /\ IF code # 0
                      THEN /\ errors' = TRUE
                           /\ IF ~argv.fail_at_end THEN Break ELSE Continue
                      ELSE errors' = errors /\ Continue
                   /\ UNCHANGED << exit_code, uncaught, logged >>
    /\ UNCHANGED << ExecVars, call, result, launched, argv, environ, has_terraform, tool, files, paths, manifest, k, variables,
                    error_exit_codes, execution_plan, artifact >>

validate_end ==
    /\ argv.cmd = "validate"
    /\ pc = "end" \/ (pc = "loop" /\ i > Len(paths))
    /\ pc' = "done"
    /\ exit_code' = IF errors THEN 1 ELSE 0
    /\ UNCHANGED << ExecVars, call, result, launched, argv, environ, has_terraform, tool, files, paths, i, manifest, k, variables,
                    errors, error_exit_codes, execution_plan, artifact, invoked,
                    uncaught, logged >>

\* ---- plan

\* plan_report reporting the exit code of the first failed directory.
plan_report_first_code(errs, codes, out, plan_dict, file) ==
    LET written == [written |-> TRUE, members |-> json_dumps(plan_dict)]
    IN  IF errs
        THEN [exit_code |-> codes[1],
              artifact |-> IF codes[1] = 2 /\ out THEN written ELSE file]
        ELSE [exit_code |-> 0, artifact |-> IF out THEN written ELSE file]

\* plan_report writing the plan whatever the exit code.
plan_report_always_writes(errs, codes, out, plan_dict, file) ==
    LET written == [written |-> TRUE, members |-> json_dumps(plan_dict)]
    IN  [exit_code |-> IF ~errs THEN 0 ELSE IF 1 \in Range(codes) THEN 1 ELSE 2,
         artifact |-> IF out THEN written ELSE file]

\* The end of plan, from `def write_plan` on: the exit status and the file at
\* --out, given the flags and the dict the loop has left.
plan_report(errs, codes, out, plan_dict, file) ==
    LET written == [written |-> TRUE, members |-> json_dumps(plan_dict)]
    IN  IF errs
        THEN LET code == IF 1 \in Range(codes) THEN 1 ELSE 2
             IN  [exit_code |-> code,
                  artifact |-> IF code = 2 /\ out THEN written ELSE file]
        ELSE [exit_code |-> 0, artifact |-> IF out THEN written ELSE file]

\* The temporary file after `terraform plan -out=file` has exited: the tool
\* writes a payload when it has a plan (exit 0, or 2 under -detailed-exitcode).
TempFilesAfterPlan(code) == IF code \in {0, 2} THEN Payloads ELSE { <<>> }

\* plan_capture recording the payload whatever the exit code.
plan_capture_any_code(plan_dict, out, rel_path, code, file) ==
    IF out THEN DictSet(plan_dict, rel_path, b64encode(file)) ELSE plan_dict

\* The body of plan's `try`, given the exit code of the subprocess and the
\* content of the temporary file: the dict after the turn.
plan_capture(plan_dict, out, rel_path, code, file) ==
    IF out /\ code \in {0, 2}
    THEN DictSet(plan_dict, rel_path, b64encode(file))
    ELSE plan_dict

\* plan, one turn of the loop once the context `tf` is mounted: the tool is
\* spawned, the payload recorded, a failure noted.
plan_turn(tf) ==
    LET rel_path == paths[i]
        code == tool[rel_path]
    IN  \E file \in TempFilesAfterPlan(code) :
          /\ invoked' = Append(invoked,
                Invocation(tf, "plan", <<>>,
                           IF argv.out THEN <<file>> ELSE <<>>,
                           environ, code))
          /\ execution_plan' =
                plan_capture(execution_plan, argv.out, rel_path, code, file)
          /\ IF code # 0
             THEN /\ errors' = TRUE
                  /\ error_exit_codes' = Append(error_exit_codes, code)
                  /\ IF ~argv.fail_at_end THEN Break ELSE Continue
             ELSE /\ UNCHANGED << errors, error_exit_codes >>
                  /\ Continue
          /\ UNCHANGED << exit_code, uncaught, logged >>

\* plan, one turn of the loop: the context is mounted, then the turn is taken.
plan_loop ==
    /\ Mounted /\ argv.cmd = "plan"
    /\ LET ht == has_terraform IN
        LET w == World(<<>>, environ, argv.verbose, ht)
            mc == mount_context(paths[i], manifest, variables, w)
        IN  IF mc.exc # "none"
            THEN /\ Leave(mc)
                 /\ UNCHANGED << i, errors, error_exit_codes, execution_plan,
                                 invoked >>
            ELSE plan_turn(mc.self)
    /\ UNCHANGED << ExecVars, call, result, launched, argv, environ, has_terraform, tool, files, paths, manifest, k, variables, artifact >>

plan_end ==
    /\ argv.cmd = "plan"
    /\ pc = "end" \/ (pc = "loop" /\ i > Len(paths))
    /\ LET r == plan_report(errors, error_exit_codes, argv.out, execution_plan,
                            artifact)
       IN  exit_code' = r.exit_code /\ artifact' = r.artifact
    /\ pc' = "done"
    /\ UNCHANGED << ExecVars, call, result, launched, argv, environ, has_terraform, tool, files, paths, i, manifest, k, variables,
                    errors, error_exit_codes, execution_plan, invoked, uncaught, logged >>

\* ---- apply

\* apply, up to its loop, when resource_dirs is not called: the argument ends
\* with "tnplan" and the target list is the keys of the artifact; or there is
\* no argument, and None has no method endswith.
apply_start ==
    /\ pc = "start" /\ argv.cmd = "apply"
    /\ argv.tnplan \/ argv.path = 0
    /\ IF argv.tnplan
       THEN /\ execution_plan' = json_loads(argv.plan_file)
            /\ paths' = DictKeys(execution_plan')
            /\ pc' = "loop"
            /\ UNCHANGED << exit_code, uncaught, logged >>
       ELSE /\ Leave(Raise("AttributeError", 1))
            /\ UNCHANGED << execution_plan, paths >>
    /\ UNCHANGED << ExecVars, call, result, launched, argv, environ, has_terraform, tool, files, i, manifest, k, variables, errors,
                    error_exit_codes, artifact, invoked >>

\* apply_plan_arg writing the stored text to the file without decoding it.
apply_plan_arg_not_decoded(plan_dict, rel_path) ==
    IF plan_dict # <<>> THEN << DictGet(plan_dict, rel_path) >>
    ELSE <<>>

\* The plan file handed to `terraform apply`, wrapped in a sequence; none when
\* apply was given no artifact (or an empty one, which is falsy).
apply_plan_arg(plan_dict, rel_path) ==
    IF plan_dict # <<>> THEN << b64decode(DictGet(plan_dict, rel_path)) >>
    ELSE <<>>

\* The subprocess of apply's turn for rel_path.
apply_invocation(tf, plan_dict, rel_path, env, code) ==
    Invocation(tf, "apply", <<>>, apply_plan_arg(plan_dict, rel_path), env, code)

apply_loop ==
    /\ Mounted /\ argv.cmd = "apply"
    /\ LET ht == has_terraform IN
        LET rel_path == paths[i]
            w == World(<<>>, environ, argv.verbose, ht)
            mc == mount_context(rel_path, manifest, variables, w)
        IN  IF mc.exc # "none"
            THEN Leave(mc) /\ UNCHANGED << i, errors, invoked >>
            ELSE LET code == tool[paths[i]] IN
                   /\ invoked' = Append(invoked,
                         apply_invocation(mc.self, execution_plan, rel_path,
                                          environ, code))
                   /\ IF code # 0
                      THEN /\ errors' = TRUE
                           /\ IF ~argv.fail_at_end THEN Break ELSE Continue
                      ELSE errors' = errors /\ Continue
                   /\ UNCHANGED << exit_code, uncaught, logged >>
    /\ UNCHANGED << ExecVars, call, result, launched, argv, environ, has_terraform, tool, files, paths, manifest, k, variables,
                    error_exit_codes, execution_plan, artifact >>

apply_end ==
    /\ argv.cmd = "apply"
    /\ pc = "end" \/ (pc = "loop" /\ i > Len(paths))
    /\ pc' = "done"
    /\ exit_code' = IF errors THEN 1 ELSE 0
    /\ UNCHANGED << ExecVars, call, result, launched, argv, environ, has_terraform, tool, files, paths, i, manifest, k, variables,
                    errors, error_exit_codes, execution_plan, artifact, invoked,
                    uncaught, logged >>

\* ---- destroy

destroy_loop ==
    /\ Mounted /\ argv.cmd = "destroy"
    /\ LET ht == has_terraform IN
        LET rel_path == paths[i]
            w == World(<<>>, environ, argv.verbose, ht)
            mc == mount_context(rel_path, manifest, variables, w)
        IN  IF mc.exc # "none"
            THEN Leave(mc) /\ UNCHANGED << i, invoked >>
            ELSE LET code == tool[paths[i]] IN
                   /\ invoked' = Append(invoked,
                         Invocation(mc.self, "destroy", <<>>, <<>>, environ, code))
                   /\ IF code # 0
                      THEN Leave(Raise("Exit", code)) /\ i' = i
                      ELSE Continue /\ UNCHANGED << exit_code, uncaught, logged >>
    /\ UNCHANGED << ExecVars, call, result, launched, argv, environ, has_terraform, tool, files, paths, manifest, k, variables, errors,
                    error_exit_codes, execution_plan, artifact >>

\* fmt and destroy return when their loop has run through the target list.
loop_return ==
    /\ argv.cmd \in {"fmt", "destroy"}
    /\ pc = "loop" /\ i > Len(paths)
    /\ Return
    /\ UNCHANGED << ExecVars, call, result, launched, argv, environ, has_terraform, tool, files, paths, i, manifest, k, variables,
                    errors, error_exit_codes, execution_plan, artifact, invoked >>

\* ---- graph, taint, untaint, import: one directory, no loop

\* full_path = SharedContext.resources_dir().joinpath(path)
single_path ==
    /\ pc = "start"
    /\ argv.cmd \in SingleCommands \ {"output"}
    /\ paths' = << argv.path >>
    /\ pc' = "loop"
    /\ UNCHANGED << ExecVars, call, result, launched, argv, environ, has_terraform, tool, files, i, manifest, k, variables, errors,
                    error_exit_codes, execution_plan, artifact, invoked,
                    exit_code, uncaught, logged >>

single(cmd, verb) ==
    /\ Mounted /\ argv.cmd = cmd
    /\ LET ht == has_terraform IN
        LET w == World(<<>>, environ, argv.verbose, ht)
            mc == mount_context(paths[i], manifest, variables, w)
        IN  IF mc.exc # "none"
            THEN Leave(mc) /\ UNCHANGED invoked
            ELSE LET code == tool[paths[i]] IN
                   /\ invoked' = Append(invoked,
                         Invocation(mc.self, verb, <<>>, <<>>, environ, code))
                   /\ IF code # 0 THEN Leave(Raise("Exit", code)) ELSE Return
    /\ UNCHANGED << ExecVars, call, result, launched, argv, environ, has_terraform, tool, files, paths, i, manifest, k, variables,
                    errors, error_exit_codes, execution_plan, artifact >>

graph == single("graph", "graph")
taint == single("taint", "taint")
untaint == single("untaint", "untaint")
define == single("define", "import")

\* ---- runbook

\* The label of a directory: its path relative to the resources root.
PathLabel(d) == << "dir1", "dir1/sub", "dir3", "dir4", "dir5" >>[d]

\* matching_runbooks taking every runbook of the manifest, whatever its name.
matching_runbooks_any_name(runbooks, name) == runbooks

\* runbook, "Extract runbook": the runbooks of the manifest that have the name
\* given (none when the manifest has no runbooks).
matching_runbooks(runbooks, name) ==
    SelectSeq(runbooks, LAMBDA rb : rb.name = name)

\* runbook, up to "Import vars": none or several matching runbooks are fatal.
runbook_select ==
    /\ pc = "mount" /\ argv.cmd = "runbook"
    /\ LET matching == matching_runbooks(manifest.runbooks, argv.name)
       IN  IF matching = <<>>
           THEN Leave(Log_fatal("MissingRunbookError"))
           ELSE IF Len(matching) > 1
           THEN Leave(Log_fatal("AmbiguousRunbookError"))
           ELSE pc' = "imports" /\ UNCHANGED << exit_code, uncaught, logged >>
    /\ UNCHANGED << ExecVars, call, result, launched, argv, environ, has_terraform, tool,
                    files, paths, i, manifest, k, variables, errors,
                    error_exit_codes, execution_plan, artifact, invoked >>

\* runbook, "Execute runbook", once the imports are extracted: the first
\* matching runbook is executed; `code` is the exit code of its entrypoint.
runbook_exec ==
    /\ pc = "imports" /\ argv.cmd = "runbook"
    /\ k > Len(manifest.imports)
    /\ LET executable_runbook ==
               Head(matching_runbooks(manifest.runbooks, argv.name))
           e == exec_env(executable_runbook, PathLabel(argv.path), environ)
       IN  IF e.exc = "MissingRunbookEnvError"
           THEN Leave(Log_fatal("MissingRunbookEnvError")) /\ UNCHANGED launched
           ELSE \E code \in ExitCodes :
                  /\ launched' = Append(launched,
                        [name |-> executable_runbook.name,
                         env |-> exec_import_vars(e.env, variables),
                         code |-> code])
                  /\ IF code # 0 THEN Leave(Raise("Exit", code)) ELSE Return
    /\ UNCHANGED << ExecVars, call, result, argv, environ, has_terraform, tool, files,
                    paths, i, manifest, k, variables, errors, error_exit_codes,
                    execution_plan, artifact, invoked >>

\* ---- output: print(extract_output_var(path, name))

output ==
    /\ pc = "start" /\ argv.cmd = "output"
    /\ \E m \in FileChoices(argv.path), out \in ToolOutputs(tool[argv.path]) :
        LET ht == has_terraform IN
        LET w == World(argv.path :> m, environ, argv.verbose, ht)
            r == extract_output_var(argv.path, K_x, out, w)
        IN  /\ files' = [files EXCEPT ![argv.path] = m]
            /\ invoked' = invoked \o r.calls
            /\ IF r.exc # "none" THEN Leave(r) ELSE Return
    /\ UNCHANGED << ExecVars, call, result, launched, argv, environ, has_terraform, tool, paths, i, manifest, k, variables, errors,
                    error_exit_codes, execution_plan, artifact >>

\* ------------------------------------------------------------------ functions applied on their own

\* The lists of exit codes plan's loop can leave in error_exit_codes: one
\* non-zero code per failed directory.
ErrorExitCodes == UNION { [1..n -> ExitCodes \ {0}] : n \in 0..MaxDirs }

\* The dicts plan's loop can leave in execution_plan.
PlanDicts == { json_loads(f) : f \in PlanFiles }

\* The file at --out before plan writes it.
NoFile == [written |-> FALSE, members |-> <<>>]

\* Process environments over the names of the pool.
FnEnvirons ==
    { e \in UNION { [S -> {"a", "b"}] :
                      S \in SUBSET {N_HOME, N_AWS_KEY, N_TFX, N_SECRET, N_TF_VAR_x} } :
        \A n \in DOMAIN e \ {N_SECRET} : e[n] = "a" }

\* The variables extract_import_vars can return for the manifests of Imports.
ImportVars ==
    { <<>>, (K_x :> "v1"), (K_y :> "v1") @@ (K_x :> "v2") }

\* A Terraform object after a constructor that has assigned both attributes.
TerraformObject(work_dir, vs, env, verbose) ==
    LET self == SetAttr(SetAttr(NewObject, "__work_dir", work_dir),
                        "__variables", vs)
    IN  BindMixin__init__(self, env, verbose).self

Calls ==
    [fn : {"plan_report"}, codes : ErrorExitCodes, out : BOOLEAN,
     plan_dict : PlanDicts]
    \cup
    { c \in [fn : {"round_trip"}, plan_dict : PlanDicts, rel_path : Dirs,
             code : ExitCodes, file : Payloads, environ : Environs] :
        c.file \in TempFilesAfterPlan(c.code) }
    \cup
    [fn : {"create_bind"}, environ : FnEnvirons, other : FnEnvirons,
     variables : ImportVars, verbose : BOOLEAN]
    \cup
    [fn : {"from_file"}, file : ManifestFiles]

\* The arguments drawn for find_in_file.
ScanCalls == [fn : {"find_in_file"}, items : TfFiles, selectors : SelectorLists]

\* No command runs while a function is applied on its own.
NoRun ==
    /\ result = <<>>
    /\ argv \in {a \in Argvs : a.cmd = "output" /\ a.path = 1 /\ ~a.verbose}
    /\ environ \in {e \in Environs : N_HOME \in DOMAIN e}
    /\ has_terraform = TRUE
    /\ tool = [d \in Dirs |-> 0]
    /\ files = [d \in Dirs |-> Unseen]
    /\ paths = <<>>
    /\ i = 1
    /\ manifest = [imports |-> <<>>, runbooks |-> <<>>]
    /\ k = 1
    /\ variables = <<>>
    /\ errors = FALSE
    /\ error_exit_codes = <<>>
    /\ execution_plan = <<>>
    /\ artifact = NoFile
    /\ invoked = <<>>
    /\ pc = "done"
    /\ exit_code = 0
    /\ uncaught = "none"
    /\ logged = <<>>
    /\ launched = <<>>

FnInit == call \in Calls /\ NoRun /\ NoExec

ScanInit == call \in ScanCalls /\ NoRun /\ NoExec

RunVars ==
    << argv, environ, has_terraform, tool, files, paths, i, manifest, k,
       variables, errors, error_exit_codes, execution_plan, artifact, invoked,
       pc, exit_code, uncaught, logged, launched >>

\* The end of plan, after a loop that has left call.codes and call.plan_dict.
call_plan_report ==
    /\ call.fn = "plan_report" /\ result = <<>>
    /\ result' = << plan_report(call.codes # <<>>, call.codes, call.out,
                                call.plan_dict, NoFile) >>
    /\ UNCHANGED << ExecVars, call, RunVars >>

\* One directory from plan to apply: plan's turn for call.rel_path records the
\* payload the tool wrote, the end of plan writes the artifact, apply loads
\* it and spawns the tool for call.rel_path.
call_round_trip ==
    /\ call.fn = "round_trip" /\ result = <<>>
    /\ LET planned == plan_capture(call.plan_dict, TRUE, call.rel_path,
                                   call.code, call.file)
           codes == IF call.code # 0 THEN << call.code >> ELSE <<>>
           report == plan_report(codes # <<>>, codes, TRUE, planned, NoFile)
           loaded == json_loads(report.artifact.members)
           tf == TerraformObject(call.rel_path, <<>>, call.environ, FALSE)
       IN  result' =
             << [exit_code |-> report.exit_code,
                 written |-> report.artifact.written,
                 spawned |-> IF report.artifact.written /\ DictHas(loaded, call.rel_path)
                             THEN << apply_invocation(tf, loaded, call.rel_path,
                                                      call.environ, 0) >>
                             ELSE <<>>] >>
    /\ UNCHANGED << ExecVars, call, RunVars >>

\* Terraform.create_bind and Bind.exec under two process environments.
call_create_bind ==
    /\ call.fn = "create_bind" /\ result = <<>>
    /\ LET one == TerraformObject(1, call.variables, call.environ, call.verbose)
           two == TerraformObject(1, call.variables, call.other, call.verbose)
       IN  result' =
             << [env |-> Bind_exec_env(one["_bind"], call.environ),
                 other |-> Bind_exec_env(two["_bind"], call.other)] >>
    /\ UNCHANGED << ExecVars, call, RunVars >>

\* ResourcesManifest.from_file on the file call.file.
call_from_file ==
    /\ call.fn = "from_file" /\ result = <<>>
    /\ result' = << from_file(call.file) >>
    /\ UNCHANGED << ExecVars, call, RunVars >>

\* ResourcesFinder.find_in_file on the file of call.items, with the selectors
\* given and with none.
call_find_in_file ==
    /\ call.fn = "find_in_file" /\ result = <<>>
    /\ LET content == FileTokens(call.items, 1)
       IN  result' = << [filtered |-> find_in_file(content, call.selectors),
                         every |-> find_in_file(content, <<>>)] >>
    /\ UNCHANGED << ExecVars, call, RunVars >>

FnNext ==
    \/ call_plan_report
    \/ call_round_trip
    \/ call_create_bind
    \/ call_from_file

FnSpec == FnInit /\ [][FnNext]_vars

ScanNext == call_find_in_file

ScanSpec == ScanInit /\ [][ScanNext]_vars

\* ---- the loop of plan over mounted contexts

\* What the wrapped tool does in each directory, any directory failing.
TurnTools == [Dirs -> ExitCodes]

\* plan has resolved its directory set and mounts, for each directory, a
\* Terraform object whose constructor has assigned both attributes.
TurnInit ==
    /\ call = [fn |-> "plan_loop"]
    /\ result = <<>>
    /\ NoExec
    /\ argv \in {a \in Argvs : a.cmd = "plan" /\ ~a.verbose}
    /\ environ \in {e \in Environs : N_HOME \in DOMAIN e}
    /\ has_terraform = TRUE
    /\ tool \in TurnTools
    /\ \E listed \in SUBSET Under(argv.path) :
          /\ paths \in walk(listed)
          /\ files = [d \in Dirs |-> IF d \in listed THEN Listed ELSE Unseen]
    /\ i = 1
    /\ manifest = [imports |-> <<>>, runbooks |-> <<>>]
    /\ k = 1
    /\ variables = <<>>
    /\ errors = FALSE
    /\ error_exit_codes = <<>>
    /\ execution_plan = <<>>
    /\ artifact = NoFile
    /\ invoked = <<>>
    /\ pc = "loop"
    /\ exit_code = -1
    /\ uncaught = "none"
    /\ logged = <<>>
    /\ launched = <<>>

\* One turn of plan's loop on the mounted context of paths[i].
call_plan_turn ==
    /\ call.fn = "plan_loop"
    /\ pc = "loop" /\ i <= Len(paths)
    /\ plan_turn(TerraformObject(paths[i], <<>>, environ, argv.verbose))
    /\ UNCHANGED << ExecVars, call, result, launched, argv, environ, has_terraform, tool,
                    files, paths, manifest, k, variables, artifact >>

TurnNext == call_plan_turn \/ plan_end

TurnSpec == TurnInit /\ [][TurnNext]_vars

\* ------------------------------------------------------------------ src/terranova/binds.py (Bind.exec, step by step)

\* Number of times the caller's loop calls Bind.exec.
MaxSpawns == 2

\* A subprocess: whether it is alive, its exit code once it is not, and the
\* signals sent to it through process.terminate() and process.kill().
Spawned == [alive |-> TRUE, code |-> 0, signals |-> <<>>]

\* The calls drawn: wait_completion, the start handler registered on the bind
\* (none, one that returns, one that raises), and whether the loop that calls
\* exec goes on after an ErrorReturnCode (fail_at_end).
ExecCalls ==
    [fn : {"exec"}, wait_completion : BOOLEAN,
     handler : {"none", "returns", "raises"}, fail_at_end : BOOLEAN]

ExecInit ==
    /\ call \in ExecCalls
    /\ NoRun
    /\ processes = <<>>
    /\ process = 0
    /\ exec_pc = "idle"
    /\ exec_exc = "none"

\* The process of exec is alive: process.is_alive().
is_alive == process # 0 /\ processes[process].alive

\* process.terminate() / process.kill(): the signal reaches the process.
send(signal) ==
    processes' = [processes EXCEPT
                     ![process].signals = Append(@, signal)]

\* `process = self.__cmd(..., _bg=True)`: the subprocess is spawned and runs
\* in the background, or the spawn raises and process stays None.
exec_spawn ==
    /\ call.fn = "exec" /\ exec_pc = "idle"
    /\ \/ /\ processes' = Append(processes, Spawned)
          /\ process' = Len(processes) + 1
          /\ exec_pc' = "spawned"
          /\ exec_exc' = "none"
       \/ /\ process' = 0
          /\ exec_pc' = "finally"
          /\ exec_exc' = "OSError"
          /\ UNCHANGED processes
    /\ UNCHANGED << call, result, RunVars >>

\* `if self.__start_handler is not None: self.__start_handler(process)`, then
\* the choice of `return process.wait() if wait_completion else process`.
exec_start_handler ==
    /\ exec_pc = "spawned"
    /\ IF call.handler = "raises"
       THEN exec_pc' = "finally" /\ exec_exc' = "HandlerError"
       ELSE /\ exec_pc' = IF call.wait_completion THEN "wait" ELSE "finally"
            /\ exec_exc' = "none"
    /\ UNCHANGED << processes, process, call, result, RunVars >>

\* process.wait() returning although the process is alive.
wait_over_any(alive) == TRUE

\* process.wait() is over once the process has exited.
wait_over(alive) == ~alive

\* process.wait(): returns when the process has exited with code 0, raises
\* ErrorReturnCode when it has exited with another code, and is left by an
\* exception raised in the waiting thread (KeyboardInterrupt).
exec_wait ==
    /\ exec_pc = "wait"
    /\ \/ /\ wait_over(processes[process].alive)
          /\ exec_exc' = IF processes[process].code = 0 THEN "none"
                         ELSE "ErrorReturnCode"
       \/ exec_exc' = "KeyboardInterrupt"
    /\ exec_pc' = "finally"
    /\ UNCHANGED << processes, process, call, result, RunVars >>

\* The guard of the finally block without wait_completion.
finally_guard_any_call(wait_completion, alive) == alive

\* `if wait_completion and process is not None and process.is_alive()`
finally_guard(wait_completion, alive) == wait_completion /\ alive

\* The finally block up to process.terminate().
exec_finally ==
    /\ exec_pc = "finally"
    /\ IF finally_guard(call.wait_completion, is_alive)
       THEN send("terminate") /\ exec_pc' = "grace"
       ELSE exec_pc' = "out" /\ UNCHANGED processes
    /\ UNCHANGED << process, exec_exc, call, result, RunVars >>

\* `process.wait(timeout=10)` in the finally block: the process has exited in
\* time (the wait returns, or raises ErrorReturnCode, which takes the place
\* of the exception in flight), or it is still alive after the 10 seconds
\* and `except TimeoutException: process.kill()` runs, or the wait is left by
\* an exception raised in the waiting thread (KeyboardInterrupt), which that
\* handler does not catch.
exec_grace ==
    /\ exec_pc = "grace"
    /\ \/ IF is_alive
          THEN /\ send("kill")
               /\ UNCHANGED exec_exc
          ELSE /\ exec_exc' = IF processes[process].code = 0 THEN exec_exc
                              ELSE "ErrorReturnCode"
               /\ UNCHANGED processes
       \/ /\ exec_exc' = "KeyboardInterrupt"
          /\ UNCHANGED processes
    /\ exec_pc' = "out"
    /\ UNCHANGED << process, call, result, RunVars >>

\* The caller, a loop of a command: after a return it goes on with the next
\* directory; ErrorReturnCode is caught, and the loop goes on under
\* fail_at_end; any other exception leaves the command. A caller that does
\* not wait calls once.
exec_caller ==
    /\ exec_pc = "out"
    /\ exec_pc' = IF /\ call.wait_completion
                     /\ Len(processes) < MaxSpawns
                     /\ \/ exec_exc = "none"
                        \/ exec_exc = "ErrorReturnCode" /\ call.fail_at_end
                  THEN "idle" ELSE "ended"
    /\ UNCHANGED << processes, process, exec_exc, call, result, RunVars >>

\* A subprocess exits, of its own accord or on SIGTERM, with some exit code.
process_exits ==
    /\ \E n \in DOMAIN processes, c \in ExitCodes :
          /\ processes[n].alive
          /\ processes' = [processes EXCEPT ![n].alive = FALSE, ![n].code = c]
    /\ UNCHANGED << process, exec_pc, exec_exc, call, result, RunVars >>

\* A subprocess that was sent SIGKILL dies.
process_killed ==
    /\ \E n \in DOMAIN processes :
          /\ processes[n].alive
          /\ "kill" \in Range(processes[n].signals)
          /\ processes' = [processes EXCEPT ![n].alive = FALSE, ![n].code = 1]
    /\ UNCHANGED << process, exec_pc, exec_exc, call, result, RunVars >>

ExecNext ==
    \/ exec_spawn
    \/ exec_start_handler
    \/ exec_wait
    \/ exec_finally
    \/ exec_grace
    \/ exec_caller
    \/ process_exits
    \/ process_killed

ExecSpec == ExecInit /\ [][ExecNext]_vars

\* The interpreter goes on through the finally block, the wait of the block
\* is over within its 10 seconds, and SIGKILL cannot be ignored.
ExecLiveSpec ==
    /\ ExecSpec
    /\ WF_vars(exec_finally)
    /\ WF_vars(exec_grace)
    /\ WF_vars(process_killed)

Next ==
    \/ resource_dirs
    \/ load_manifest
    \/ extract_import_vars
    \/ init_loop \/ init_end
    \/ fmt_loop
    \/ validate_loop \/ validate_end
    \/ plan_loop \/ plan_end
    \/ apply_start \/ apply_loop \/ apply_end
    \/ destroy_loop
    \/ loop_return
    \/ single_path \/ graph \/ taint \/ untaint \/ define
    \/ runbook_select \/ runbook_exec
    \/ output

Spec == Init /\ [][Next]_vars

\* ------------------------------------------------------------------ claims

\* The run met no trouble of its own making: the binary is on PATH, and every
\* manifest of a target that was read is well-formed and declares no import.
TargetsSound ==
    /\ has_terraform
    /\ paths # <<>>
    /\ \A d \in Range(paths) :
         /\ files[d].kind \in {"ok", "listed", "unseen"}
         /\ files[d].imports = <<>>

\* C2: with fail-at-end=false, when the wrapped tool exits with a non-zero code
\* c for a directory, the orchestrator's own exit code equals c (init, plan,
\* apply, destroy, fmt, graph, taint, untaint, import).
C2_ExitCodePropagated ==
    ( /\ pc = "done"
      /\ argv.cmd \in {"init", "plan", "apply", "destroy", "fmt", "graph",
                       "taint", "untaint", "define"}
      /\ ~argv.fail_at_end
      /\ TargetsSound )
    => \A d \in Range(paths) : tool[d] # 0 => exit_code = tool[d]

\* C3: with fail-at-end=true every directory of the target list is attempted
\* (its wrapped-tool invocation is reached), and the final exit code is
\* non-zero if and only if at least one directory failed.
C3_AllAttempted ==
    ( /\ pc = "done"
      /\ argv.cmd \in {"init", "plan", "apply"}
      /\ argv.fail_at_end
      /\ TargetsSound )
    => /\ \A j \in DOMAIN paths : \E n \in DOMAIN invoked :
             invoked[n].dir = paths[j] /\ invoked[n].verb = argv.cmd
       /\ exit_code # 0 <=> \E d \in Range(paths) : tool[d] # 0

C5_ArtifactWritten ==
    \A r \in Range(result) : (call.fn = "plan_report" /\ call.out) =>
        /\ r.exit_code \in {0, 2} =>
              r.artifact = [written |-> TRUE, members |-> json_dumps(call.plan_dict)]
        /\ r.exit_code = 1 => ~r.artifact.written

C5_Witness ==
    /\ call.fn = "plan_report" /\ call.out /\ result # <<>>
    /\ call.plan_dict # <<>>
    /\ result[1].exit_code = 1
    /\ ~result[1].artifact.written

\* C6: plan with an output path, directory A exiting 2 and directory B exiting
\* 0 with a payload, in either order and for either value of fail-at-end: the
\* command exits 2 and the artifact holds the payload of A and that of B.
C6_DetailedExitcode ==
    ( /\ pc = "done"
      /\ argv.cmd = "plan" /\ argv.out
      /\ TargetsSound
      /\ \E a, b \in Range(paths) : tool[a] = 2 /\ tool[b] = 0 )
    => /\ exit_code = 2
       /\ artifact.written
       /\ \A d \in Range(paths) :
            /\ DictHas(json_loads(artifact.members), d)
            /\ \E n \in DOMAIN invoked :
                 /\ invoked[n].dir = d /\ invoked[n].verb = "plan"
                 /\ invoked[n].plan =
                      << b64decode(DictGet(json_loads(artifact.members), d)) >>

\* C7: an apply given a plan artifact invokes the wrapped tool for exactly the
\* directories that are keys of the artifact, in the artifact's key order.
C7_ApplyArtifactKeys ==
    ( /\ pc = "done"
      /\ argv.cmd = "apply" /\ argv.tnplan
      /\ TargetsSound
      /\ \A d \in Range(paths) : tool[d] = 0 )
    => [n \in DOMAIN invoked |-> invoked[n].dir] = DictKeys(json_loads(argv.plan_file))

\* C8: for a directory whose payload plan has recorded in a written artifact,
\* the subprocess apply spawns for it is `terraform apply` (never plan) and
\* the plan file it is given is byte for byte the payload the tool wrote at
\* plan time.
C8_RoundTrip ==
    \A r \in Range(result) : call.fn = "round_trip" =>
        \A inv \in Range(r.spawned) :
            /\ inv.verb = "apply"
            /\ inv.dir = call.rel_path
            /\ call.code \in {0, 2} => inv.plan = << call.file >>

C8_Witness ==
    /\ call.fn = "round_trip" /\ result # <<>>
    /\ call.code = 2 /\ Len(call.file) = 2
    /\ Len(call.plan_dict) = 2
    /\ result[1].spawned # <<>>
    /\ result[1].spawned[1].plan = << call.file >>

\* The allow-list of C9: the fixed names, and the four prefixes.
C9_AllowListed(n) ==
    \/ n \in { N_CLOUDSDK_AUTH_CREDENTIAL_FILE_OVERRIDE, N_CLOUDSDK_CORE_PROJECT,
               N_CLOUDSDK_PROJECT, N_GCLOUD_PROJECT, N_GCP_PROJECT,
               N_GOOGLE_APPLICATION_CREDENTIALS, N_GOOGLE_CLOUD_PROJECT,
               N_GOOGLE_GHA_CREDS_PATH, N_HOME, N_PATH }
    \/ \E p \in {P_TF_, P_TERRANOVA_, P_AWS_, P_ASDF_} : StartsWith(n, p)

\* The variables C9 calls injected.
C9_Injected(vs) ==
    {P_TF_VAR_ \o key : key \in DOMAIN vs} \cup {N_TF_PLUGIN_CACHE_DIR, N_TF_LOG}

\* C9: every variable of the subprocess environment is an allow-listed process
\* variable or an injected one, and two process environments that differ only
\* in variables off the allow-list give the same subprocess environment.
C9_AllowListOnly ==
    \A r \in Range(result) : call.fn = "create_bind" =>
        /\ \A n \in DOMAIN r.env :
             \/ n \in C9_Injected(call.variables)
             \/ /\ C9_AllowListed(n)
                /\ n \in DOMAIN call.environ
                /\ r.env[n] = call.environ[n]
        /\ ( \A n \in DOMAIN call.environ \cup DOMAIN call.other :
                C9_AllowListed(n) =>
                    /\ n \in DOMAIN call.environ /\ n \in DOMAIN call.other
                    /\ call.environ[n] = call.other[n] )
           => r.env = r.other

C9_Witness ==
    /\ call.fn = "create_bind" /\ result # <<>>
    /\ {N_SECRET, N_TFX, N_HOME, N_AWS_KEY} \subseteq DOMAIN call.environ
    /\ N_SECRET \in DOMAIN call.other
    /\ call.other[N_SECRET] # call.environ[N_SECRET]
    /\ N_TFX \notin DOMAIN call.other
    /\ K_x \in DOMAIN call.variables
    /\ {N_HOME, N_AWS_KEY, N_TF_PLUGIN_CACHE_DIR} \subseteq DOMAIN result[1].env
    /\ {N_SECRET, N_TFX} \cap DOMAIN result[1].env = {}
    /\ result[1].env = result[1].other

\* C10: when a context is built with variable injection for a directory whose
\* imports resolved to the mapping `variables`, the wrapped tool is spawned
\* with TF_VAR_<name> = variables[name] for every name of the mapping.
C10_VariablesInjected ==
    [][ (Mounted /\ argv.cmd \in ImportVarsCommands /\ has_terraform)
        => /\ Len(invoked') = Len(invoked) + 1
           /\ \A name \in DOMAIN variables :
                invoked'[Len(invoked')].env[P_TF_VAR_ \o name] = variables[name]
      ]_vars

\* A turn of import resolution that meets no trouble of the environment: the
\* binary is on PATH, the manifest of the source directory is sound, and the
\* wrapped tool exits 0 there.
ImportTurnSound ==
    /\ pc = "mount" /\ argv.cmd \in ImportVarsCommands
    /\ k <= Len(manifest.imports)
    /\ has_terraform
    /\ tool[manifest.imports[k].source] = 0
    /\ files'[manifest.imports[k].source].kind = "ok"

\* C11: import resolution goes through the imports in declaration order; the
\* turn of import k reads the output from the source directory and binds its
\* value under the alias if one is given, under the exported name otherwise,
\* replacing what an earlier import had bound under that name and leaving the
\* other names as they were.
C11_ImportsBoundInOrder ==
    [][ ImportTurnSound
        => LET importer == manifest.imports[k]
               target == IF importer.target # <<>> THEN importer.target
                         ELSE importer.resource
           IN  /\ k' = k + 1
               /\ Len(invoked') = Len(invoked) + 1
               /\ invoked'[Len(invoked')].verb = "output"
               /\ invoked'[Len(invoked')].dir = importer.source
               /\ invoked'[Len(invoked')].name = importer.resource
               /\ DOMAIN variables' = DOMAIN variables \cup {target}
               /\ \A n \in DOMAIN variables \ {target} :
                     variables'[n] = variables[n]
      ]_vars

\* The run has ended in the turn of import k of paths[i], with the binary on
\* PATH and a sound manifest in the source directory.
EndedInImportTurn ==
    /\ pc = "done" /\ argv.cmd \in ImportVarsCommands
    /\ has_terraform
    /\ k <= Len(manifest.imports)
    /\ files[manifest.imports[k].source].kind = "ok"

\* C12: when the read-output invocation for an import of a directory exits
\* with a non-zero code c, the orchestrator exits with c and the command's own
\* verb is never run in that directory.
C12_ImportFailurePropagated ==
    ( /\ EndedInImportTurn
      /\ tool[manifest.imports[k].source] # 0 )
    => /\ exit_code = tool[manifest.imports[k].source]
       /\ \A n \in DOMAIN invoked :
            invoked[n].dir = paths[i] => invoked[n].verb = "output"

\* C13: plan, apply, destroy, taint, untaint and import resolve the imports of
\* the manifest (a read-output invocation is issued in the source directory
\* of the import whose turn it is), and init, fmt and validate never issue a
\* read-output invocation.
C13_ImportsResolvedByCommand ==
    /\ EndedInImportTurn
         => \E n \in DOMAIN invoked :
              /\ invoked[n].verb = "output"
              /\ invoked[n].dir = manifest.imports[k].source
              /\ invoked[n].name = manifest.imports[k].resource
    /\ argv.cmd \in {"init", "fmt", "validate"}
         => \A n \in DOMAIN invoked : invoked[n].verb # "output"

\* C14: loading a manifest fails with MissingManifest when the file does not
\* exist, UnreadableManifest when it is not readable, InvalidManifest when YAML
\* parsing or schema validation fails, UnsupportedManifestVersion when the
\* version has no schema; the outcome is one of these four errors or a
\* manifest, and nothing else.
C14_ManifestErrors ==
    \A r \in Range(result) : call.fn = "from_file" =>
        /\ r.exc \in ManifestError \cup {"none"}
        /\ call.file.kind = "missing" => r.exc = "MissingManifestError"
        /\ call.file.kind = "unreadable" => r.exc = "UnreadableManifestError"
        /\ call.file.kind \in {"yaml", "schema"} => r.exc = "InvalidManifestError"
        /\ call.file.kind = "version" => r.exc = "VersionManifestError"
        /\ call.file.kind = "ok" => r.exc = "none" /\ r.manifest.imports = call.file.imports

\* A text without any character but blanks.
Blank(text) == \A n \in DOMAIN text : text[n] \in {" ", "\n"}

\* The declarations of the file of call.items that have no comment block right
\* before them, or a blank one.
Undocumented ==
    {j \in DOMAIN call.items :
        call.items[j].doc = <<>> \/ Blank(call.items[j].doc[1])}

\* C15: the scan of a file fails with the undocumented-resource error, naming
\* the type and the name of the resource, when a declaration of the file has
\* no comment block right before it or a blank one; no list is returned.
C15_UndocumentedFails ==
    \A r \in Range(result) : (call.fn = "find_in_file" /\ Undocumented # {}) =>
        /\ r.every.exc = "InvalidResourcesError"
        /\ r.filtered.exc = "InvalidResourcesError"
        /\ \E j \in Undocumented :
             /\ r.every.resource_type = "t"
             /\ r.every.resource_name = ResourceNames[j]

\* C16: every resource a scan returns has at least one attribute; a scan of a
\* file with a declaration whose comment block has no line of the shape
\* @<attr-name> <attr-value> fails.
C16_AttributeRequired ==
    \A r \in Range(result) : call.fn = "find_in_file" =>
        /\ r.every.exc = "none"
             => \A n \in DOMAIN r.every.resources :
                    DOMAIN r.every.resources[n].attrs # {}
        /\ (\E j \in DOMAIN call.items : call.items[j].doc = << C_text >>)
             => r.every.exc = "InvalidResourcesError"

\* C17 as stated: a selector matches a resource when the resource has the
\* named attribute with at least one value and, if the selector carries a
\* value (any string, the empty one included), that value is among them.
C17_MatchesAsStated(selector, resource) ==
    /\ selector.name \in DOMAIN resource.attrs
    /\ Len(resource.attrs[selector.name]) >= 1
    /\ selector.value # None_value
         => selector.value \in Range(resource.attrs[selector.name])

\* C17 amended: the value counts when it is a non-empty string.
C17_Matches(selector, resource) ==
    /\ selector.name \in DOMAIN resource.attrs
    /\ Len(resource.attrs[selector.name]) >= 1
    /\ (selector.value # None_value /\ selector.value # <<>>)
         => selector.value \in Range(resource.attrs[selector.name])

\* The resources of a list that every selector matches, in the order of the
\* list; `stated` chooses the reading of C17.
RECURSIVE C17_Filter(_, _, _)
C17_Filter(resources, selectors, stated) ==
    IF resources = <<>> THEN <<>>
    ELSE LET keep == \A n \in DOMAIN selectors :
                         IF stated
                         THEN C17_MatchesAsStated(selectors[n], Head(resources))
                         ELSE C17_Matches(selectors[n], Head(resources))
         IN  (IF keep THEN << Head(resources) >> ELSE <<>>)
             \o C17_Filter(Tail(resources), selectors, stated)

\* C17 as stated: a scan with selectors returns exactly the resources of the
\* file that every selector matches, a selector with an empty value matching
\* the resources that list the empty value.
C17_SelectorsAsStated ==
    \A r \in Range(result) :
        (call.fn = "find_in_file" /\ r.every.exc = "none") =>
            /\ r.filtered.exc = "none"
            /\ r.filtered.resources =
                 C17_Filter(r.every.resources, call.selectors, TRUE)

\* C17 amended: a selector matches a resource if and only if the resource has
\* the named attribute with at least one value and, when the selector carries
\* a non-empty value, that value is among the attribute's values; a scan with
\* several selectors returns exactly the resources matched by all of them.
C17_Selectors ==
    \A r \in Range(result) :
        (call.fn = "find_in_file" /\ r.every.exc = "none") =>
            /\ r.filtered.exc = "none"
            /\ r.filtered.resources =
                 C17_Filter(r.every.resources, call.selectors, FALSE)

C17_Witness ==
    /\ call.fn = "find_in_file" /\ result # <<>>
    /\ Len(call.selectors) = 2
    /\ result[1].every.exc = "none"
    /\ Len(result[1].every.resources) = 2
    /\ Len(result[1].filtered.resources) = 1
    /\ \E n \in DOMAIN call.selectors :
         /\ call.selectors[n].value # None_value
         /\ C17_Matches(call.selectors[n], result[1].every.resources[1])
         /\ ~C17_Matches(call.selectors[3 - n], result[1].every.resources[1])

\* C18: for a resource whose comment block has the lines `@e p`, `no`, `@e d`
\* and `@t a`, the scan yields the entry e with the values p, d in that order
\* and the entry t with the value a; the line `no` adds nothing and is no
\* error.
C18_ValuesAccumulate ==
    \A r \in Range(result) : call.fn = "find_in_file" =>
        \A j \in DOMAIN call.items :
            (call.items[j].doc = << C_two >> /\ r.every.exc = "none") =>
                \E n \in DOMAIN r.every.resources :
                    /\ r.every.resources[n].name = ResourceNames[j]
                    /\ r.every.resources[n].attrs =
                         (E_name :> << << "p" >>, << "d" >> >>)
                             @@ (T_name :> << << "a" >> >>)

\* The number of runbooks of the manifest at the path given that have the
\* name given.
C19_Matches ==
    Cardinality({n \in DOMAIN files[argv.path].runbooks :
                    files[argv.path].runbooks[n].name = argv.name})

\* C19: running a runbook by name fails with MissingRunbookError when no
\* runbook of the manifest has that name and with AmbiguousRunbookError when
\* more than one has it; the entrypoint is launched only when exactly one
\* runbook matches, and the one launched is that one.
C19_RunbookSelected ==
    argv.cmd = "runbook" =>
        /\ (pc = "done" /\ files[argv.path].kind = "ok" /\ C19_Matches = 0)
             => /\ logged = << "MissingRunbookError" >>
                /\ exit_code = 1
                /\ launched = <<>>
        /\ (pc = "done" /\ files[argv.path].kind = "ok" /\ C19_Matches > 1)
             => /\ logged = << "AmbiguousRunbookError" >>
                /\ exit_code = 1
                /\ launched = <<>>
        /\ launched # <<>>
             => /\ files[argv.path].kind = "ok"
                /\ C19_Matches = 1
                /\ Len(launched) = 1
                /\ launched[1].name = argv.name

C19_Witness ==
    /\ argv.cmd = "runbook" /\ pc = "done"
    /\ Len(files[argv.path].runbooks) = 2
    /\ C19_Matches = 1
    /\ Len(launched) = 1
    /\ launched[1].name = argv.name

\* The environment the specification states for the subprocess of runbook
\* `rb` run for the directory labelled `path`: the three context variables,
\* the PATH of the process, and every declared entry with its literal when
\* one is declared and the process variable of its name otherwise.
C20_StatedEnv(rb, path) ==
    LET context == (N_TERRANOVA_PATH :> path)
                       @@ (N_TERRANOVA_CONF_DIR :> "conf")
                       @@ (N_TERRANOVA_RUNBOOK_NAME :> rb.name)
        with_path == IF N_PATH \in DOMAIN environ
                     THEN (N_PATH :> environ[N_PATH]) @@ context ELSE context
        names == {rb.env[n].name : n \in DOMAIN rb.env}
        last(name) == CHOOSE n \in DOMAIN rb.env :
                          /\ rb.env[n].name = name
                          /\ \A o \in DOMAIN rb.env :
                                 rb.env[o].name = name => o <= n
        declared == [name \in names |->
                        IF rb.env[last(name)].declared
                        THEN rb.env[last(name)].value ELSE environ[name]]
    IN  declared @@ with_path

\* The declared entries of `rb` that have no literal and no process variable.
C20_Absent(rb) ==
    {n \in DOMAIN rb.env :
        ~rb.env[n].declared /\ rb.env[n].name \notin DOMAIN environ}

\* The imports of the manifest all have a readable source where the wrapped
\* tool is installed and succeeds.
C20_ImportsResolvable ==
    /\ has_terraform
    /\ \A n \in DOMAIN files[argv.path].imports :
           tool[files[argv.path].imports[n].source] = 0

C23_DirectorySet ==
    (argv.cmd \in BatchCommands /\ ~argv.tnplan /\ pc = "loop" /\ i = 1)
    => IF argv.path # 0
       THEN paths = << argv.path >>
       ELSE /\ Range(paths) = {d \in Dirs : files[d].kind # "missing"}
            /\ \A a, b \in DOMAIN paths : a < b => paths[a] < paths[b]

\* The manifest of directory d was read and found missing, unreadable, invalid
\* or of an unsupported version.
ManifestFailed(d) ==
    files[d].kind \in {"missing", "unreadable", "yaml", "version", "schema"}

\* C24: a batch that has ended after the manifest of one of its directories
\* failed has, with fail-at-end=false, stopped at that directory (no later
\* directory was read) with a non-zero exit code, and with fail-at-end=true,
\* gone on to read every later directory and ended with a non-zero exit code.
C24_ManifestErrorPolicy ==
    (pc = "done" /\ argv.cmd \in FailAtEndCommands /\ ~argv.tnplan)
    => \A j \in DOMAIN paths : ManifestFailed(paths[j]) =>
          /\ exit_code # 0
          /\ \A l \in j + 1 .. Len(paths) :
                IF argv.fail_at_end THEN files[paths[l]] # Listed
                ELSE files[paths[l]] = Listed

\* C25: a plan with an output path that has ended on an empty directory set
\* has exit code 0 and has written no artifact file.
C25_EmptyPlanNoArtifact ==
    (argv.cmd = "plan" /\ argv.out /\ pc = "done" /\ paths = <<>>)
    => exit_code = 0 /\ ~artifact.written

\* The directories whose plan invocation has exited 0 or 2.
C28_Planned ==
    {invoked[n].dir : n \in {m \in DOMAIN invoked :
        invoked[m].verb = "plan" /\ invoked[m].code \in {0, 2}}}

\* C28: during a plan with an output path, the keys of execution_plan are at
\* every point the directories whose plan invocation has exited 0 or 2, and
\* no step changes or removes an entry already recorded.
C28_PlanKeys ==
    /\ [](argv.cmd = "plan" /\ argv.out
            => Range(DictKeys(execution_plan)) = C28_Planned)
    /\ [][argv.cmd = "plan" /\ argv.out
            => \A d \in Range(DictKeys(execution_plan)) :
                  /\ DictHas(execution_plan', d)
                  /\ DictGet(execution_plan', d) = DictGet(execution_plan, d)]_vars

\* A plan over three directories has recorded the one that exited 0 and the
\* one that exited 2, and not the one that exited 1 between them.
C28_Witness ==
    /\ argv.cmd = "plan" /\ argv.out /\ argv.fail_at_end
    /\ Len(paths) = 3 /\ i = 4
    /\ tool[paths[1]] = 0 /\ tool[paths[2]] = 1 /\ tool[paths[3]] = 2
    /\ Range(DictKeys(execution_plan)) = {paths[1], paths[3]}

\* The environment of the bind that create_bind builds for the call.
C29_BindEnv ==
    TerraformObject(1, call.variables, call.environ, call.verbose)["_bind"].env

\* C29: the environment create_bind builds holds TF_PLUGIN_CACHE_DIR, so it is
\* not empty and Bind.exec spawns the subprocess with that environment, never
\* with the whole environment of the process.
C29_EnvNeverEmpty ==
    \A r \in Range(result) : call.fn = "create_bind" =>
        /\ N_TF_PLUGIN_CACHE_DIR \in DOMAIN C29_BindEnv
        /\ C29_BindEnv # <<>>
        /\ r.env = C29_BindEnv

\* create_bind has run in a process with no variable on the allow-list and
\* one off it, with no import variable and without verbose: the subprocess
\* gets TF_PLUGIN_CACHE_DIR alone.
C29_Witness ==
    /\ call.fn = "create_bind" /\ result # <<>>
    /\ DOMAIN call.environ = {N_SECRET}
    /\ call.variables = <<>> /\ ~call.verbose
    /\ DOMAIN result[1].env = {N_TF_PLUGIN_CACHE_DIR}

\* C21: every subprocess but the last one spawned has exited, so at most one
\* is alive at any time and each has exited before the next is spawned.
C21_OneSubprocess ==
    /\ \A n \in DOMAIN processes : n < Len(processes) => ~processes[n].alive
    /\ Cardinality({n \in DOMAIN processes : processes[n].alive}) <= 1

\* A loop under fail_at_end has gone on after a failed invocation, which has
\* exited, and the second subprocess is alive.
C21_Witness ==
    /\ call.fn = "exec" /\ call.wait_completion /\ call.fail_at_end
    /\ Len(processes) = 2
    /\ ~processes[1].alive /\ processes[1].code # 0
    /\ processes[2].alive /\ exec_pc = "wait"

\* C22: a subprocess is sent terminate before kill, and kill only by the
\* bounded wait that follows terminate when the process is still alive at its
\* end; and a subprocess that is alive when an exec that waits reaches its
\* finally block is eventually not alive.
C22_GracefulThenForced ==
    /\ [](\A n \in DOMAIN processes :
             processes[n].signals \in
                 { <<>>, << "terminate" >>, << "terminate", "kill" >> })
    /\ [][\A n \in DOMAIN processes :
             ("kill" \in Range(processes'[n].signals)
                 /\ "kill" \notin Range(processes[n].signals))
             => /\ exec_pc = "grace" /\ process = n
                /\ processes[n].alive
                /\ processes[n].signals = << "terminate" >>]_vars
    /\ \A n \in 1..MaxSpawns :
          (call.wait_completion /\ exec_pc = "finally" /\ process = n
              /\ is_alive)
          ~> (n \in DOMAIN processes /\ ~processes[n].alive)

\* C30: an exec that does not wait sends no signal to any process, and when
\* its start handler raises, that exception is the one that leaves exec.
C30_NoTeardownWithoutWait ==
    (call.fn = "exec" /\ ~call.wait_completion)
    => /\ \A n \in DOMAIN processes : processes[n].signals = <<>>
       /\ (call.handler = "raises" /\ process # 0
              /\ exec_pc \in {"finally", "out", "ended"})
            => exec_exc = "HandlerError"

\* The start handler has raised in an exec that does not wait: the exception
\* has left exec and the process it spawned is running, with no signal sent.
C30_Witness ==
    /\ call.fn = "exec" /\ ~call.wait_completion /\ call.handler = "raises"
    /\ exec_pc = "ended" /\ exec_exc = "HandlerError"
    /\ Len(processes) = 1 /\ processes[1].alive
    /\ processes[1].signals = <<>>

\* The errors of the runbook executor.
C26_RunbookErrors ==
    {"MissingRunbookError", "AmbiguousRunbookError", "MissingRunbookEnvError"}

C27_Imports == files[paths[1]].imports

\* C27: a command that resolves imports and has ended, with the binary on
\* PATH, a well-formed manifest in the first target and in the source of each
\* of its imports, and the tool succeeding there, has issued for the first
\* target one read-output invocation per declared import, in order, and no
\* further one for the imports that the sources declare themselves.
C27_OneReadPerImport ==
    ( /\ pc = "done" /\ argv.cmd \in ImportVarsCommands
      /\ has_terraform
      /\ paths # <<>>
      /\ files[paths[1]].kind = "ok"
      /\ \A n \in DOMAIN C27_Imports :
            /\ files[C27_Imports[n].source].kind = "ok"
            /\ tool[C27_Imports[n].source] = 0 )
    => /\ \A n \in DOMAIN C27_Imports :
            /\ n <= Len(invoked)
            /\ invoked[n].verb = "output"
            /\ invoked[n].dir = C27_Imports[n].source
            /\ invoked[n].name = C27_Imports[n].resource
       /\ Len(invoked) > Len(C27_Imports)
            => invoked[Len(C27_Imports) + 1].verb # "output"
====
